---- MODULE Spec2Model ----
(***************************************************************************)
(* klock-core: the conflict matrix, the Wait-Die scheduler and the         *)
(* in-memory lease store, modelled from the Rust sources.                  *)
(***************************************************************************)
EXTENDS Integers, Sequences, FiniteSets, TLC

(***************************************************************************)
(* Bounds of the model.                                                    *)
(***************************************************************************)
MaxNow == 2
MaxTtl == 1
MaxPri == 2
MaxLeases == 2
MaxHolders == 2
MaxNowWD == 0

Agents == {"a1", "a2"}
AgentsWD == {"a1", "a2", "a3"}
Sessions == {"s1"}
Nows == 0..MaxNow
NowsWD == 0..MaxNowWD
Ttls == 1..MaxTtl
Pris == 1..MaxPri

\* Option<T>: None is the empty tuple, Some(x) the one-element tuple.
None == <<>>
Some(x) == <<x>>

(***************************************************************************)
(* types/primitives.rs                                                     *)
(***************************************************************************)
Predicate == {"Provides", "Consumes", "Mutates", "Deletes", "DependsOn", "Renames"}

to_index(p) ==
    CASE p = "Provides" -> 0
      [] p = "Consumes" -> 1
      [] p = "Mutates" -> 2
      [] p = "Deletes" -> 3
      [] p = "DependsOn" -> 4
      [] p = "Renames" -> 5

ResourceType == {"File", "Symbol", "ApiEndpoint", "DatabaseTable", "ConfigKey"}

\* impl Display for ResourceType
DisplayResourceType(t) ==
    CASE t = "File" -> "FILE"
      [] t = "Symbol" -> "SYMBOL"
      [] t = "ApiEndpoint" -> "API_ENDPOINT"
      [] t = "DatabaseTable" -> "DATABASE_TABLE"
      [] t = "ConfigKey" -> "CONFIG_KEY"

ResourceRef(t, path) == [resource_type |-> t, path |-> path]

\* ResourceRef::key: "{TYPE}:{path}"; the type name holds no colon, so the
\* string is the pair of its two parts.
Key(r) == <<DisplayResourceType(r.resource_type), r.path>>

\* The resources and predicates the requests are drawn from.
Resources == {ResourceRef("File", "/x"), ResourceRef("Symbol", "/x")}
PredInputs == {"Consumes", "Mutates"}
DecidePreds == Predicate

(***************************************************************************)
(* conflict.rs                                                             *)
(***************************************************************************)
\* MATRIX[held][requesting], TRUE = compatible; rows and columns are 0-based
\* in the source and 1-based here.
\* MATRIX with two Provides made compatible.
MATRIX_ProvidesShared ==
    << <<TRUE,  TRUE,  FALSE, FALSE, TRUE,  FALSE>>,
       <<TRUE,  TRUE,  FALSE, FALSE, TRUE,  FALSE>>,
       <<FALSE, FALSE, FALSE, FALSE, FALSE, FALSE>>,
       <<FALSE, FALSE, FALSE, FALSE, FALSE, FALSE>>,
       <<TRUE,  TRUE,  FALSE, FALSE, TRUE,  FALSE>>,
       <<FALSE, FALSE, FALSE, FALSE, FALSE, FALSE>> >>

\* MATRIX with two Consumes made incompatible.
MATRIX_ConsumesExclusive ==
    << <<FALSE, TRUE,  FALSE, FALSE, TRUE,  FALSE>>,
       <<TRUE,  FALSE, FALSE, FALSE, TRUE,  FALSE>>,
       <<FALSE, FALSE, FALSE, FALSE, FALSE, FALSE>>,
       <<FALSE, FALSE, FALSE, FALSE, FALSE, FALSE>>,
       <<TRUE,  TRUE,  FALSE, FALSE, TRUE,  FALSE>>,
       <<FALSE, FALSE, FALSE, FALSE, FALSE, FALSE>> >>

\* MATRIX with the cell (Provides held, Consumes requesting) made incompatible
\* and its mirror cell left compatible.
MATRIX_Asymmetric ==
    << <<FALSE, FALSE, FALSE, FALSE, TRUE,  FALSE>>,
       <<TRUE,  TRUE,  FALSE, FALSE, TRUE,  FALSE>>,
       <<FALSE, FALSE, FALSE, FALSE, FALSE, FALSE>>,
       <<FALSE, FALSE, FALSE, FALSE, FALSE, FALSE>>,
       <<TRUE,  TRUE,  FALSE, FALSE, TRUE,  FALSE>>,
       <<FALSE, FALSE, FALSE, FALSE, FALSE, FALSE>> >>

MATRIX ==
    << <<FALSE, TRUE,  FALSE, FALSE, TRUE,  FALSE>>,
       <<TRUE,  TRUE,  FALSE, FALSE, TRUE,  FALSE>>,
       <<FALSE, FALSE, FALSE, FALSE, FALSE, FALSE>>,
       <<FALSE, FALSE, FALSE, FALSE, FALSE, FALSE>>,
       <<TRUE,  TRUE,  FALSE, FALSE, TRUE,  FALSE>>,
       <<FALSE, FALSE, FALSE, FALSE, FALSE, FALSE>> >>

check_pair(held, requesting) == ~MATRIX[to_index(held) + 1][to_index(requesting) + 1]

\* SPOTriple, with the fields ConflictEngine::check reads.
SPOTriple(subject, predicate, object, session_id) ==
    [subject |-> subject, predicate |-> predicate, object |-> object,
     session_id |-> session_id]

\* ConflictResult; the reason string is the tuple of the values it formats.
ConflictOk == [kind |-> "Ok"]
Conflict(reason) == [kind |-> "Conflict", reason |-> reason]

\* The first position at which a sequence of booleans is TRUE, 0 if there
\* is none: where the loop of check returns.
FirstHit(hits) ==
    IF \E i \in DOMAIN hits : hits[i]
    THEN CHOOSE i \in DOMAIN hits : hits[i] /\ \A j \in 1..(i - 1) : ~hits[j]
    ELSE 0

\* check without the skip of the requester's own (agent, session).
check_NoReentrancy(new_triple, existing_triples) ==
    LET key == Key(new_triple.object)
        Hit(existing) ==
            /\ Key(existing.object) = key
            /\ check_pair(existing.predicate, new_triple.predicate)
        i == FirstHit([k \in DOMAIN existing_triples |-> Hit(existing_triples[k])])
    IN  IF i = 0
        THEN ConflictOk
        ELSE Conflict(<<new_triple.subject, new_triple.predicate,
                        existing_triples[i].subject, existing_triples[i].predicate,
                        new_triple.object>>)

\* check without the skip of the triples on another resource.
check_AnyResource(new_triple, existing_triples) ==
    LET Hit(existing) ==
            /\ ~(/\ existing.subject = new_triple.subject
                 /\ existing.session_id = new_triple.session_id)
            /\ check_pair(existing.predicate, new_triple.predicate)
        i == FirstHit([k \in DOMAIN existing_triples |-> Hit(existing_triples[k])])
    IN  IF i = 0
        THEN ConflictOk
        ELSE Conflict(<<new_triple.subject, new_triple.predicate,
                        existing_triples[i].subject, existing_triples[i].predicate,
                        new_triple.object>>)

\* ConflictEngine::check: the loop returns at the first existing triple that
\* is on the same key, not of the same (subject, session), and conflicts.
check(new_triple, existing_triples) ==
    LET key == Key(new_triple.object)
        Hit(existing) ==
            /\ Key(existing.object) = key
            /\ ~(/\ existing.subject = new_triple.subject
                 /\ existing.session_id = new_triple.session_id)
            /\ check_pair(existing.predicate, new_triple.predicate)
        i == FirstHit([k \in DOMAIN existing_triples |-> Hit(existing_triples[k])])
    IN  IF i = 0
        THEN ConflictOk
        ELSE Conflict(<<new_triple.subject, new_triple.predicate,
                        existing_triples[i].subject, existing_triples[i].predicate,
                        new_triple.object>>)

(***************************************************************************)
(* types/lease.rs                                                          *)
(***************************************************************************)
LeaseState == {"Active", "Expired", "Released", "Revoked"}

\* LeaseNew with the expiry left at the time of the grant.
LeaseNew_ExpiresAtNow(id, agent_id, session_id, resource, predicate, ttl, now) ==
    [id |-> id, agent_id |-> agent_id, session_id |-> session_id,
     resource |-> resource, predicate |-> predicate, state |-> "Active",
     acquired_at |-> now, ttl |-> ttl, expires_at |-> now,
     last_heartbeat |-> now]

\* LeaseNew with last_heartbeat left at zero.
LeaseNew_NoFirstBeat(id, agent_id, session_id, resource, predicate, ttl, now) ==
    [id |-> id, agent_id |-> agent_id, session_id |-> session_id,
     resource |-> resource, predicate |-> predicate, state |-> "Active",
     acquired_at |-> now, ttl |-> ttl, expires_at |-> now + ttl,
     last_heartbeat |-> 0]

LeaseNew(id, agent_id, session_id, resource, predicate, ttl, now) ==
    [id |-> id, agent_id |-> agent_id, session_id |-> session_id,
     resource |-> resource, predicate |-> predicate, state |-> "Active",
     acquired_at |-> now, ttl |-> ttl, expires_at |-> now + ttl,
     last_heartbeat |-> now]

(***************************************************************************)
(* scheduler.rs                                                            *)
(***************************************************************************)
Verdict(status, reason, held_by, retry_after_ms) ==
    [status |-> status, reason |-> reason, held_by |-> held_by,
     retry_after_ms |-> retry_after_ms]

\* ConflictingHolders without the comparison of the resource keys.
ConflictingHolders_AnyResource(requesting_agent_id, requesting_predicate, resource, active_leases) ==
    SelectSeq(active_leases,
              LAMBDA lease : /\ lease.agent_id # requesting_agent_id
                             /\ check_pair(lease.predicate, requesting_predicate))

\* The leases of active_leases, in order, that the first loop of decide keeps.
ConflictingHolders(requesting_agent_id, requesting_predicate, resource, active_leases) ==
    SelectSeq(active_leases,
              LAMBDA lease : /\ Key(lease.resource) = Key(resource)
                             /\ lease.agent_id # requesting_agent_id
                             /\ check_pair(lease.predicate, requesting_predicate))

\* retry_after_ms of the two Die verdicts
MissingPriorityRetryMs == 1000
JuniorRetryMs == 1000

\* WaitOrDie with a requester of equal priority made to wait.
WaitOrDie_TieWaits(requester_priority, holder_priority, holder) ==
    IF requester_priority <= holder_priority
    THEN Verdict("Wait", Some(<<"SeniorWaiting", requester_priority, holder_priority>>),
                 Some(holder.agent_id), None)
    ELSE Verdict("Die", Some(<<"JuniorMustDie", holder_priority, requester_priority>>),
                 Some(holder.agent_id), Some(JuniorRetryMs))

\* WaitOrDie turned round: the younger requester waits and the older dies.
WaitOrDie_SeniorDies(requester_priority, holder_priority, holder) ==
    IF requester_priority > holder_priority
    THEN Verdict("Wait", Some(<<"SeniorWaiting", requester_priority, holder_priority>>),
                 Some(holder.agent_id), None)
    ELSE Verdict("Die", Some(<<"JuniorMustDie", holder_priority, requester_priority>>),
                 Some(holder.agent_id), Some(JuniorRetryMs))

\* The verdict of the second loop against one holder that has a priority.
WaitOrDie(requester_priority, holder_priority, holder) ==
    IF requester_priority < holder_priority
    THEN Verdict("Wait", Some(<<"SeniorWaiting", requester_priority, holder_priority>>),
                 Some(holder.agent_id), None)
    ELSE Verdict("Die", Some(<<"JuniorMustDie", holder_priority, requester_priority>>),
                 Some(holder.agent_id), Some(JuniorRetryMs))

\* decide with a requester without priority treated like a holder without
\* one: the conflict is skipped.
decide_MissingPrioritySkipped(requesting_agent_id, requesting_predicate, resource, active_leases, prio) ==
    LET holders == ConflictingHolders(requesting_agent_id, requesting_predicate,
                                      resource, active_leases)
        ranked == SelectSeq(holders, LAMBDA h : h.agent_id \in DOMAIN prio)
    IN  IF holders = <<>> \/ requesting_agent_id \notin DOMAIN prio \/ ranked = <<>>
        THEN Verdict("Granted", None, None, None)
        ELSE WaitOrDie(prio[requesting_agent_id], prio[Head(ranked).agent_id], Head(ranked))

\* decide that does not skip a holder without priority: the requester dies
\* against it.
decide_UnknownHolderKills(requesting_agent_id, requesting_predicate, resource, active_leases, prio) ==
    LET holders == ConflictingHolders(requesting_agent_id, requesting_predicate,
                                      resource, active_leases)
    IN  IF holders = <<>>
        THEN Verdict("Granted", None, None, None)
        ELSE IF requesting_agent_id \notin DOMAIN prio
        THEN Verdict("Die", Some(<<"MissingPriority">>), None, Some(MissingPriorityRetryMs))
        ELSE IF Head(holders).agent_id \notin DOMAIN prio
        THEN Verdict("Die", Some(<<"MissingPriority">>), Some(Head(holders).agent_id),
                     Some(MissingPriorityRetryMs))
        ELSE WaitOrDie(prio[requesting_agent_id], prio[Head(holders).agent_id],
                       Head(holders))

\* WaitDieScheduler::decide; active_leases is a sequence, priorities a
\* function whose domain is the set of registered agents.
decide(requesting_agent_id, requesting_predicate, resource, active_leases, prio) ==
    LET holders == ConflictingHolders(requesting_agent_id, requesting_predicate,
                                      resource, active_leases)
        \* the loop skips the holders without priority and returns at the first other
        ranked == SelectSeq(holders, LAMBDA h : h.agent_id \in DOMAIN prio)
    IN  IF holders = <<>>
        THEN Verdict("Granted", None, None, None)
        ELSE IF requesting_agent_id \notin DOMAIN prio
        THEN Verdict("Die", Some(<<"MissingPriority">>), None, Some(MissingPriorityRetryMs))
        ELSE IF ranked = <<>>
        THEN Verdict("Granted", None, None, None)
        ELSE WaitOrDie(prio[requesting_agent_id], prio[Head(ranked).agent_id], Head(ranked))

(***************************************************************************)
(* state.rs                                                                *)
(***************************************************************************)
\* KernelVerdict
KernelVerdict(agent_id, session_id, status, reason, held_by, conflicts, retry_after_ms) ==
    [agent_id |-> agent_id, session_id |-> session_id, status |-> status,
     reason |-> reason, held_by |-> held_by, conflicts |-> conflicts,
     retry_after_ms |-> retry_after_ms]

\* The running worst_status, return_reason, return_held_by, return_retry.
WorstStart == [status |-> "Granted", reason |-> None, held_by |-> None, retry |-> None]

\* Worse with the latest verdict that is not Granted taken as the status.
Worse_LastWins(worst, verdict) ==
    CASE verdict.status = "Wait" ->
            [worst EXCEPT !.status = "Wait", !.reason = verdict.reason,
                          !.held_by = verdict.held_by]
      [] verdict.status = "Die" ->
            [status |-> "Die", reason |-> verdict.reason, held_by |-> verdict.held_by,
             retry |-> verdict.retry_after_ms]
      [] OTHER -> worst

\* Worse with the retry delay of a Die left out.
Worse_NoRetry(worst, verdict) ==
    CASE verdict.status = "Wait" ->
            IF worst.status # "Die"
            THEN [worst EXCEPT !.status = "Wait", !.reason = verdict.reason,
                               !.held_by = verdict.held_by]
            ELSE worst
      [] verdict.status = "Die" ->
            [worst EXCEPT !.status = "Die", !.reason = verdict.reason,
                          !.held_by = verdict.held_by]
      [] OTHER -> worst

\* fn execute, the match on the scheduler's status (the same in both
\* branches): the four running variables after one intent.
Worse(worst, verdict) ==
    CASE verdict.status = "Wait" ->
            IF worst.status # "Die"
            THEN [worst EXCEPT !.status = "Wait", !.reason = verdict.reason,
                               !.held_by = verdict.held_by]
            ELSE worst
      [] verdict.status = "Die" ->
            [status |-> "Die", reason |-> verdict.reason, held_by |-> verdict.held_by,
             retry |-> verdict.retry_after_ms]
      [] OTHER -> worst

\* ConflictsAfter without the entry for a lease that refuses the intent.
ConflictsAfter_IntentsOnly(conflicts, conflict_result, verdict, intent) ==
    IF conflict_result.kind = "Conflict"
    THEN Append(conflicts, conflict_result.reason)
    ELSE conflicts

\* fn execute: the conflicts list after one intent. The entry is the reason
\* of the conflict with an active intent, else the text naming the resource
\* when the scheduler does not grant.
ConflictsAfter(conflicts, conflict_result, verdict, intent) ==
    IF conflict_result.kind = "Conflict"
    THEN Append(conflicts, conflict_result.reason)
    ELSE IF verdict.status # "Granted"
    THEN Append(conflicts, <<"Conflict with active lease on", intent.object>>)
    ELSE conflicts

\* fn execute: the loop over manifest.intents from position i on.
RECURSIVE ExecuteLoop(_, _, _, _, _)
ExecuteLoop(state, manifest, i, worst, conflicts) ==
    IF i > Len(manifest.intents)
    THEN KernelVerdict(manifest.agent_id, manifest.session_id, worst.status,
                       worst.reason, worst.held_by, conflicts, worst.retry)
    ELSE LET intent == manifest.intents[i]
             conflict_result == check(intent, state.active_intents)
             verdict == decide(manifest.agent_id, intent.predicate, intent.object,
                               state.active_leases, state.priorities)
         IN  ExecuteLoop(state, manifest, i + 1, Worse(worst, verdict),
                         ConflictsAfter(conflicts, conflict_result, verdict, intent))

\* KlockKernel::execute
execute(state, manifest) == ExecuteLoop(state, manifest, 1, WorstStart, <<>>)

(***************************************************************************)
(* infrastructure_in_memory.rs                                             *)
(***************************************************************************)
VARIABLES
    leases,      \* InMemoryLeaseStore.leases: lease id -> Lease
    priorities,  \* InMemoryLeaseStore.priorities: agent id -> priority
    last,        \* the call that has just returned: operation, arguments, result
    waits,       \* per tracked agent, its latest acquire if that was answered Wait
    dcall,       \* the arguments of a direct call of WaitDieScheduler::decide
    ccall,       \* the arguments of a direct call of the ConflictEngine
    counted,     \* when tracked, the lease ids some evict_expired call has counted
    active_intents,  \* KlockClient.active_intents
    id_counter,      \* KlockClient.id_counter
    rows,        \* SqliteLeaseStore: the table leases, lease id -> row
    kcall,       \* the arguments of a direct call of KlockKernel::execute
    lock,        \* the server's Mutex<KlockClient>: the request that holds it
    reqs         \* the HTTP requests in flight: handler, position, arguments

\* The state of the facade, the persistent store and the server.
ext == <<active_intents, id_counter, rows, kcall, lock, reqs>>

vars == <<leases, priorities, last, waits, dcall, ccall, counted, ext>>

\* No facade, persistent store or server next to the store.
NoExt ==
    /\ active_intents = <<>>
    /\ id_counter = 0
    /\ rows = <<>>
    /\ kcall = None
    /\ lock = None
    /\ reqs = <<>>

\* format!("lease_{}_{}", agent_id, now): now is decimal digits, so the
\* string determines both parts.
LeaseId(agent_id, now) == <<"lease", agent_id, now>>

\* evict_expired that expires nothing.
EvictExpiredMap_Keep(ls, now) == ls

\* evict_expired that also expires a lease whose expires_at is now.
EvictExpiredMap_Inclusive(ls, now) ==
    [id \in DOMAIN ls |->
        IF ls[id].state = "Active" /\ ls[id].expires_at <= now
        THEN [ls[id] EXCEPT !.state = "Expired"]
        ELSE ls[id]]

\* evict_expired that spares a lease for one more tick.
EvictExpiredMap_Late(ls, now) ==
    [id \in DOMAIN ls |->
        IF ls[id].state = "Active" /\ ls[id].expires_at + 1 < now
        THEN [ls[id] EXCEPT !.state = "Expired"]
        ELSE ls[id]]

\* fn evict_expired: the map after the loop.
EvictExpiredMap(ls, now) ==
    [id \in DOMAIN ls |->
        IF ls[id].state = "Active" /\ ls[id].expires_at < now
        THEN [ls[id] EXCEPT !.state = "Expired"]
        ELSE ls[id]]

\* fn evict_expired: expired_count.
EvictExpiredCount(ls, now) ==
    Cardinality({id \in DOMAIN ls : ls[id].state = "Active" /\ ls[id].expires_at < now})

\* get_active_leases without its filter.
ActiveLeases_All(ls) == {ls[id] : id \in DOMAIN ls}

\* fn get_active_leases, as the set of leases the Vec holds.
ActiveLeases(ls) == {ls[id] : id \in {i \in DOMAIN ls : ls[i].state = "Active"}}

\* The orders in which HashMap::values may enumerate a set of leases.
Orders(S) ==
    {f \in [1..Cardinality(S) -> S] : \A i, j \in 1..Cardinality(S) : f[i] = f[j] => i = j}

\* HashMap::insert
Insert(m, k, v) == [x \in DOMAIN m \cup {k} |-> IF x = k THEN v ELSE m[x]]

\* The lease ids a caller passes: those of the store and one no lease has.
UnknownLeaseId == LeaseId("nobody", 0)
LeaseIdInputs == DOMAIN leases \cup {UnknownLeaseId}

Idle == [op |-> "idle"]

\* InMemoryLeaseStore::new
InitStore ==
    /\ leases = <<>>
    /\ priorities = <<>>
    /\ last = Idle

\* fn register_agent_priority
RegisterAgentPriority(agent_id, priority_timestamp) ==
    /\ last = Idle
    /\ priorities' = Insert(priorities, agent_id, priority_timestamp)
    /\ last' = [op |-> "register_agent_priority", agent_id |-> agent_id,
                priority |-> priority_timestamp]
    /\ UNCHANGED <<leases, waits, dcall, ccall, counted, ext>>

\* FailureResult with the retry delay also given to a waiter.
FailureResult_WaitHint(verdict) ==
    [kind |-> "Failure", reason |-> verdict.status, existing_lease |-> None,
     wait_time |-> Some(JuniorRetryMs)]

\* fn acquire, the Wait and Die arms of the match.
FailureResult(verdict) ==
    IF verdict.status = "Wait"
    THEN [kind |-> "Failure", reason |-> "Wait", existing_lease |-> None,
          wait_time |-> None]
    ELSE [kind |-> "Failure", reason |-> "Die", existing_lease |-> None,
          wait_time |-> verdict.retry_after_ms]

\* acquire as wound-wait would do it: a requester older than the holder
\* revokes the conflicting leases and is granted.
AcquireOutcome_WoundWait(ls, prio, agent_id, session_id, resource, predicate, ttl, now, order) ==
    LET verdict == decide(agent_id, predicate, resource, order, prio)
        lease_id == LeaseId(agent_id, now)
        lease == LeaseNew(lease_id, agent_id, session_id, resource, predicate, ttl, now)
        revoked == [id \in DOMAIN ls |->
                       IF /\ ls[id].state = "Active"
                          /\ ls[id].agent_id # agent_id
                          /\ Key(ls[id].resource) = Key(resource)
                          /\ check_pair(ls[id].predicate, predicate)
                       THEN [ls[id] EXCEPT !.state = "Revoked"]
                       ELSE ls[id]]
    IN  IF verdict.status = "Granted"
        THEN [leases |-> Insert(ls, lease_id, lease),
              result |-> [kind |-> "Success", lease |-> lease]]
        ELSE IF verdict.status = "Wait"
        THEN [leases |-> Insert(revoked, lease_id, lease),
              result |-> [kind |-> "Success", lease |-> lease]]
        ELSE [leases |-> ls, result |-> FailureResult(verdict)]

\* fn acquire after its eviction: the store after the call and the
\* LeaseResult, for one enumeration order of the active leases.
AcquireOutcome(ls, prio, agent_id, session_id, resource, predicate, ttl, now, order) ==
    LET verdict == decide(agent_id, predicate, resource, order, prio)
        lease_id == LeaseId(agent_id, now)
        lease == LeaseNew(lease_id, agent_id, session_id, resource, predicate, ttl, now)
    IN  IF verdict.status = "Granted"
        THEN [leases |-> Insert(ls, lease_id, lease),
              result |-> [kind |-> "Success", lease |-> lease]]
        ELSE [leases |-> ls, result |-> FailureResult(verdict)]

\* The request an agent is left waiting on: the resource, the predicate and
\* the ids of the leases that conflicted with it when it was answered.
WaitRecord(ls, agent_id, resource, predicate) ==
    [resource |-> resource, predicate |-> predicate,
     blockers |-> {l.id : l \in {h \in ActiveLeases(ls) :
                                    /\ Key(h.resource) = Key(resource)
                                    /\ h.agent_id # agent_id
                                    /\ check_pair(h.predicate, predicate)}}]

\* waits after an acquire of agent_id was answered with result.
WaitsAfter(w, ls, agent_id, resource, predicate, result) ==
    IF agent_id \notin DOMAIN w
    THEN w
    ELSE [w EXCEPT ![agent_id] =
            IF result.kind = "Failure" /\ result.reason = "Wait"
            THEN Some(WaitRecord(ls, agent_id, resource, predicate))
            ELSE None]

\* fn acquire
Acquire(agent_id, session_id, resource, predicate, ttl, now) ==
    /\ last = Idle
    /\ LET evicted == EvictExpiredMap(leases, now)
       IN  \E order \in Orders(ActiveLeases(evicted)) :
               LET out == AcquireOutcome(evicted, priorities, agent_id, session_id,
                                         resource, predicate, ttl, now, order)
               IN  /\ leases' = out.leases
                   /\ last' = [op |-> "acquire", agent_id |-> agent_id,
                               session_id |-> session_id, resource |-> resource,
                               predicate |-> predicate, ttl |-> ttl, now |-> now,
                               result |-> out.result]
                   /\ waits' = WaitsAfter(waits, evicted, agent_id, resource,
                                          predicate, out.result)
    /\ UNCHANGED <<priorities, dcall, ccall, counted, ext>>

\* fn release
Release(lease_id) ==
    /\ last = Idle
    /\ IF lease_id \in DOMAIN leases
       THEN /\ leases' = [leases EXCEPT ![lease_id].state = "Released"]
            /\ last' = [op |-> "release", lease_id |-> lease_id, result |-> TRUE]
       ELSE /\ leases' = leases
            /\ last' = [op |-> "release", lease_id |-> lease_id, result |-> FALSE]
    /\ UNCHANGED <<priorities, waits, dcall, ccall, counted, ext>>

\* heartbeat that renews a lease in any state.
Heartbeat_AnyState(lease_id, now) ==
    /\ last = Idle
    /\ IF lease_id \in DOMAIN leases
       THEN /\ leases' = [leases EXCEPT ![lease_id].last_heartbeat = now,
                                        ![lease_id].expires_at = now + leases[lease_id].ttl]
            /\ last' = [op |-> "heartbeat", lease_id |-> lease_id, now |-> now,
                        result |-> TRUE]
       ELSE /\ leases' = leases
            /\ last' = [op |-> "heartbeat", lease_id |-> lease_id, now |-> now,
                        result |-> FALSE]
    /\ UNCHANGED <<priorities, waits, dcall, ccall, counted, ext>>

\* heartbeat that records the beat but does not slide the expiry.
Heartbeat_KeepExpiry(lease_id, now) ==
    /\ last = Idle
    /\ IF lease_id \in DOMAIN leases /\ leases[lease_id].state = "Active"
       THEN /\ leases' = [leases EXCEPT ![lease_id].last_heartbeat = now]
            /\ last' = [op |-> "heartbeat", lease_id |-> lease_id, now |-> now,
                        result |-> TRUE]
       ELSE /\ leases' = leases
            /\ last' = [op |-> "heartbeat", lease_id |-> lease_id, now |-> now,
                        result |-> FALSE]
    /\ UNCHANGED <<priorities, waits, dcall, ccall, counted, ext>>

\* fn heartbeat
Heartbeat(lease_id, now) ==
    /\ last = Idle
    /\ IF lease_id \in DOMAIN leases /\ leases[lease_id].state = "Active"
       THEN /\ leases' = [leases EXCEPT ![lease_id].last_heartbeat = now,
                                        ![lease_id].expires_at = now + leases[lease_id].ttl]
            /\ last' = [op |-> "heartbeat", lease_id |-> lease_id, now |-> now,
                        result |-> TRUE]
       ELSE /\ leases' = leases
            /\ last' = [op |-> "heartbeat", lease_id |-> lease_id, now |-> now,
                        result |-> FALSE]
    /\ UNCHANGED <<priorities, waits, dcall, ccall, counted, ext>>

\* The lease ids one evict_expired call adds to its expired_count.
ExpiredBy(ls, now) ==
    {id \in DOMAIN ls : ls[id].state = "Active" /\ ls[id].expires_at < now}

\* counted after evict_expired(now) has returned its count.
CountedAfter(c, ls, now) ==
    IF c = None THEN None ELSE Some(c[1] \cup ExpiredBy(ls, now))

\* fn evict_expired
EvictExpired(now) ==
    /\ last = Idle
    /\ leases' = EvictExpiredMap(leases, now)
    /\ last' = [op |-> "evict_expired", now |-> now,
                result |-> EvictExpiredCount(leases, now)]
    /\ counted' = CountedAfter(counted, leases, now)
    /\ UNCHANGED <<priorities, waits, dcall, ccall, ext>>

\* The call has returned to its caller, which may make the next one.
Return ==
    /\ last # Idle
    /\ last' = Idle
    /\ UNCHANGED <<leases, priorities, waits, dcall, ccall, counted, ext>>

(***************************************************************************)
(* The store under any sequence of calls.                                  *)
(***************************************************************************)
Init ==
    /\ InitStore
    /\ waits = <<>>
    /\ dcall = None
    /\ ccall = None
    /\ counted = None
    /\ NoExt

Next ==
    \/ \E a \in Agents, p \in Pris : RegisterAgentPriority(a, p)
    \/ \E a \in Agents, s \in Sessions, r \in Resources, p \in PredInputs,
          t \in Ttls, n \in Nows :
            Acquire(a, s, r, p, t, n) /\ Cardinality(DOMAIN leases') <= MaxLeases
    \/ \E id \in LeaseIdInputs : Release(id)
    \/ \E id \in LeaseIdInputs, n \in Nows : Heartbeat(id, n)
    \/ \E n \in Nows : EvictExpired(n)
    \/ Return

Spec == Init /\ [][Next]_vars

(***************************************************************************)
(* The store with three agents of fixed, pairwise distinct priorities,     *)
(* with the requests answered Wait recorded.                               *)
(***************************************************************************)
DistinctPriorities ==
    {f \in [AgentsWD -> 1..Cardinality(AgentsWD)] :
        \A a, b \in AgentsWD : f[a] = f[b] => a = b}

InitWD ==
    /\ leases = <<>>
    /\ priorities \in DistinctPriorities
    /\ last = Idle
    /\ waits = [a \in AgentsWD |-> None]
    /\ dcall = None
    /\ ccall = None
    /\ counted = None
    /\ NoExt

NextWD ==
    \/ \E a \in AgentsWD, s \in Sessions, r \in Resources, p \in PredInputs,
          t \in Ttls, n \in NowsWD : Acquire(a, s, r, p, t, n)
    \/ \E id \in LeaseIdInputs : Release(id)
    \/ \E id \in LeaseIdInputs, n \in NowsWD : Heartbeat(id, n)
    \/ \E n \in NowsWD : EvictExpired(n)
    \/ Return

SpecWD == InitWD /\ [][NextWD]_vars

(***************************************************************************)
(* WaitDieScheduler::decide called directly.                               *)
(***************************************************************************)
\* The leases handed to decide, built as scheduler_test.rs builds them.
HolderLeases ==
    {LeaseNew(LeaseId(a, 0), a, "s1", r, p, 1, 0) :
        a \in AgentsWD, r \in Resources, p \in DecidePreds}

SeqsUpTo(S, n) == UNION {[1..k -> S] : k \in 0..n}

PriorityMaps == UNION {[D -> Pris] : D \in SUBSET AgentsWD}

InitDecide ==
    /\ leases = <<>>
    /\ priorities = <<>>
    /\ last = Idle
    /\ waits = <<>>
    /\ dcall \in [requesting_agent_id : AgentsWD,
                  requesting_predicate : DecidePreds,
                  resource : Resources,
                  active_leases : SeqsUpTo(HolderLeases, MaxHolders),
                  priorities : PriorityMaps]
    /\ ccall = None
    /\ counted = None
    /\ NoExt

Decide ==
    /\ last = Idle
    /\ dcall # None
    /\ last' = [op |-> "decide",
                result |-> decide(dcall.requesting_agent_id, dcall.requesting_predicate,
                                  dcall.resource, dcall.active_leases, dcall.priorities)]
    /\ UNCHANGED <<leases, priorities, waits, dcall, ccall, counted, ext>>

NextDecide == Decide

SpecDecide == InitDecide /\ [][NextDecide]_vars

(***************************************************************************)
(* ConflictEngine::check and check_pair called directly, next to decide.   *)
(***************************************************************************)
MaxExisting == 2

SessionsCE == {"s1", "s2"}

\* The triples handed to check, built as conflict_test.rs builds them.
Triples ==
    {SPOTriple(a, p, r, s) : a \in Agents, p \in Predicate, r \in Resources,
                             s \in SessionsCE}

CheckCalls ==
    [op : {"check"}, new_triple : Triples,
     existing_triples : SeqsUpTo(Triples, MaxExisting)]

CheckPairCalls == [op : {"check_pair"}, held : Predicate, requesting : Predicate]

DecideCalls ==
    [requesting_agent_id : AgentsWD,
     requesting_predicate : DecidePreds,
     resource : Resources,
     active_leases : SeqsUpTo(HolderLeases, MaxHolders),
     priorities : PriorityMaps]

InitConflict ==
    /\ leases = <<>>
    /\ priorities = <<>>
    /\ last = Idle
    /\ waits = <<>>
    /\ counted = None
    /\ NoExt
    /\ \/ dcall = None /\ ccall \in CheckCalls \cup CheckPairCalls
       \/ dcall \in DecideCalls /\ ccall = None

Check ==
    /\ last = Idle
    /\ ccall # None
    /\ ccall.op = "check"
    /\ last' = [op |-> "check",
                result |-> check(ccall.new_triple, ccall.existing_triples)]
    /\ UNCHANGED <<leases, priorities, waits, dcall, ccall, counted, ext>>

CheckPair ==
    /\ last = Idle
    /\ ccall # None
    /\ ccall.op = "check_pair"
    /\ last' = [op |-> "check_pair",
                result |-> check_pair(ccall.held, ccall.requesting)]
    /\ UNCHANGED <<leases, priorities, waits, dcall, ccall, counted, ext>>

NextConflict ==
    \/ Check
    \/ CheckPair
    \/ Decide

SpecConflict == InitConflict /\ [][NextConflict]_vars

(***************************************************************************)
(* KlockKernel::execute called directly.                                   *)
(***************************************************************************)
MaxIntents == 2
MaxActiveIntents == 1
MaxActiveLeases == 2

KernelPreds == {"Consumes", "Mutates"}

\* The intents of a manifest: all of the manifest's agent and session.
ManifestIntents(agent_id, session_id) ==
    {SPOTriple(agent_id, p, r, session_id) : p \in KernelPreds, r \in Resources}

Manifests ==
    UNION {[session_id : {s}, agent_id : {"a1"},
            intents : SeqsUpTo(ManifestIntents("a1", s), MaxIntents)] : s \in SessionsCE}

\* The snapshot: leases as state_test.rs builds them, intents of any agent
\* and session.
SnapshotLeases ==
    {LeaseNew(LeaseId(a, 0), a, "s1", r, "Mutates", 1, 0) : a \in AgentsWD, r \in Resources}

SnapshotIntents ==
    {SPOTriple(a, p, r, s) : a \in Agents, p \in KernelPreds, r \in Resources,
                             s \in SessionsCE}

Snapshots ==
    [active_leases : SeqsUpTo(SnapshotLeases, MaxActiveLeases),
     active_intents : SeqsUpTo(SnapshotIntents, MaxActiveIntents),
     priorities : PriorityMaps]

InitKernel ==
    /\ leases = <<>>
    /\ priorities = <<>>
    /\ last = Idle
    /\ waits = <<>>
    /\ dcall = None
    /\ ccall = None
    /\ counted = None
    /\ active_intents = <<>>
    /\ id_counter = 0
    /\ rows = <<>>
    /\ kcall \in [state : Snapshots, manifest : Manifests]
    /\ lock = None
    /\ reqs = <<>>

Execute ==
    /\ last = Idle
    /\ kcall # None
    /\ last' = [op |-> "execute", result |-> execute(kcall.state, kcall.manifest)]
    /\ UNCHANGED <<leases, priorities, waits, dcall, ccall, counted, ext>>

NextKernel == Execute

SpecKernel == InitKernel /\ [][NextKernel]_vars

\* The clock and the resource of the facade and of the two stores run together.
MaxNowFacade == 2

NowsFacade == {0, MaxNowFacade}
ResourcesFacade == {ResourceRef("File", "/x")}

(***************************************************************************)
(* infrastructure_sqlite.rs, run next to the in-memory store with the same *)
(* calls.                                                                  *)
(***************************************************************************)
\* fn parse_predicate, parse_resource_type, parse_lease_state of the store:
\* the text of a column back to the enum, with the default of the last arm.
SqlParsePredicate(s) == IF s \in Predicate THEN s ELSE "Consumes"
SqlParseResourceType(s) == IF s \in ResourceType THEN s ELSE "File"
SqlParseLeaseState(s) == IF s \in LeaseState THEN s ELSE "Active"

\* The row the INSERT of acquire writes: format!("{:?}", ..) of the two enums
\* is the name of the variant, the state is the literal 'Active'.
RowOf(lease) ==
    [id |-> lease.id, agent_id |-> lease.agent_id, session_id |-> lease.session_id,
     res_type |-> lease.resource.resource_type, res_path |-> lease.resource.path,
     predicate |-> lease.predicate, state |-> "Active",
     acquired_at |-> lease.acquired_at, ttl |-> lease.ttl,
     expires_at |-> lease.expires_at, last_heartbeat |-> lease.last_heartbeat]

\* fn row_to_lease
row_to_lease(row) ==
    [id |-> row.id, agent_id |-> row.agent_id, session_id |-> row.session_id,
     resource |-> ResourceRef(SqlParseResourceType(row.res_type), row.res_path),
     predicate |-> SqlParsePredicate(row.predicate),
     state |-> SqlParseLeaseState(row.state),
     acquired_at |-> row.acquired_at, ttl |-> row.ttl,
     expires_at |-> row.expires_at, last_heartbeat |-> row.last_heartbeat]

\* fn get_active_leases of the store: SELECT ... WHERE state = 'Active'.
SqlActiveLeases(rs) ==
    {row_to_lease(rs[id]) : id \in {i \in DOMAIN rs : rs[i].state = "Active"}}

\* fn evict_expired of the store: the UPDATE and the number of rows it changed.
SqlEvictExpired(rs, now) ==
    [id \in DOMAIN rs |->
        IF rs[id].state = "Active" /\ rs[id].expires_at < now
        THEN [rs[id] EXCEPT !.state = "Expired"]
        ELSE rs[id]]

SqlEvictExpiredCount(rs, now) ==
    Cardinality({id \in DOMAIN rs : rs[id].state = "Active" /\ rs[id].expires_at < now})

\* fn acquire of the store after its eviction. The INSERT fails when a row
\* has the id (PRIMARY KEY); .ok() drops the error and Success is returned.
SqlAcquireOutcome(rs, prio, agent_id, session_id, resource, predicate, ttl, now, order) ==
    LET verdict == decide(agent_id, predicate, resource, order, prio)
        lease_id == LeaseId(agent_id, now)
        lease == LeaseNew(lease_id, agent_id, session_id, resource, predicate, ttl, now)
        insert_failed == lease_id \in DOMAIN rs
    IN  IF verdict.status = "Granted"
        THEN [rows |-> IF insert_failed THEN rs ELSE Insert(rs, lease_id, RowOf(lease)),
              result |-> [kind |-> "Success", lease |-> lease],
              insert_failed |-> insert_failed]
        ELSE [rows |-> rs, result |-> FailureResult(verdict), insert_failed |-> FALSE]

\* register_agent_priority on both stores: each inserts into its HashMap.
BothRegister(agent_id, priority_timestamp) ==
    /\ last = Idle
    /\ priorities' = Insert(priorities, agent_id, priority_timestamp)
    /\ last' = [op |-> "register_agent_priority", agent_id |-> agent_id,
                priority |-> priority_timestamp, result |-> None, sql_result |-> None]
    /\ UNCHANGED <<leases, rows, waits, dcall, ccall, counted, active_intents,
                   id_counter, kcall, lock, reqs>>

\* acquire on both stores with the same arguments.
BothAcquire(agent_id, session_id, resource, predicate, ttl, now) ==
    /\ last = Idle
    /\ LET evicted == EvictExpiredMap(leases, now)
           sql_evicted == SqlEvictExpired(rows, now)
       IN  \E order \in Orders(ActiveLeases(evicted)),
              sql_order \in Orders(SqlActiveLeases(sql_evicted)) :
               LET out == AcquireOutcome(evicted, priorities, agent_id, session_id,
                                         resource, predicate, ttl, now, order)
                   sql_out == SqlAcquireOutcome(sql_evicted, priorities, agent_id,
                                                session_id, resource, predicate, ttl,
                                                now, sql_order)
               IN  /\ leases' = out.leases
                   /\ rows' = sql_out.rows
                   /\ last' = [op |-> "acquire", agent_id |-> agent_id,
                               session_id |-> session_id, resource |-> resource,
                               predicate |-> predicate, ttl |-> ttl, now |-> now,
                               result |-> out.result, sql_result |-> sql_out.result,
                               insert_failed |-> sql_out.insert_failed]
    /\ UNCHANGED <<priorities, waits, dcall, ccall, counted, active_intents,
                   id_counter, kcall, lock, reqs>>

\* release on both stores: the UPDATE of the persistent store has
\* AND state = 'Active'.
BothRelease(lease_id) ==
    /\ last = Idle
    /\ leases' = IF lease_id \in DOMAIN leases
                 THEN [leases EXCEPT ![lease_id].state = "Released"]
                 ELSE leases
    /\ rows' = IF lease_id \in DOMAIN rows /\ rows[lease_id].state = "Active"
               THEN [rows EXCEPT ![lease_id].state = "Released"]
               ELSE rows
    /\ last' = [op |-> "release", lease_id |-> lease_id,
                result |-> lease_id \in DOMAIN leases,
                sql_result |-> (lease_id \in DOMAIN rows /\ rows[lease_id].state = "Active")]
    /\ UNCHANGED <<priorities, waits, dcall, ccall, counted, active_intents,
                   id_counter, kcall, lock, reqs>>

\* heartbeat on both stores.
BothHeartbeat(lease_id, now) ==
    /\ last = Idle
    /\ LET hit == lease_id \in DOMAIN leases /\ leases[lease_id].state = "Active"
           sql_hit == lease_id \in DOMAIN rows /\ rows[lease_id].state = "Active"
       IN  /\ leases' = IF hit
                        THEN [leases EXCEPT
                                 ![lease_id].last_heartbeat = now,
                                 ![lease_id].expires_at = now + leases[lease_id].ttl]
                        ELSE leases
           /\ rows' = IF sql_hit
                      THEN [rows EXCEPT
                               ![lease_id].last_heartbeat = now,
                               ![lease_id].expires_at = now + rows[lease_id].ttl]
                      ELSE rows
           /\ last' = [op |-> "heartbeat", lease_id |-> lease_id, now |-> now,
                       result |-> hit, sql_result |-> sql_hit]
    /\ UNCHANGED <<priorities, waits, dcall, ccall, counted, active_intents,
                   id_counter, kcall, lock, reqs>>

\* evict_expired on both stores.
BothEvictExpired(now) ==
    /\ last = Idle
    /\ leases' = EvictExpiredMap(leases, now)
    /\ rows' = SqlEvictExpired(rows, now)
    /\ last' = [op |-> "evict_expired", now |-> now,
                result |-> EvictExpiredCount(leases, now),
                sql_result |-> SqlEvictExpiredCount(rows, now)]
    /\ UNCHANGED <<priorities, waits, dcall, ccall, counted, active_intents,
                   id_counter, kcall, lock, reqs>>

\* The priority each agent registers with, a1 the older.
BackendPriority == [a \in Agents |-> IF a = "a1" THEN 1 ELSE 2]

\* The predicate the two stores are asked for: exclusive, so that the second
\* agent waits or dies.
PredsBackends == {"Mutates"}

\* InMemoryLeaseStore::new and SqliteLeaseStore::open on a new database.
InitBackends ==
    /\ InitStore
    /\ rows = <<>>
    /\ waits = <<>>
    /\ dcall = None
    /\ ccall = None
    /\ counted = None
    /\ active_intents = <<>>
    /\ id_counter = 0
    /\ kcall = None
    /\ lock = None
    /\ reqs = <<>>

NextBackends ==
    \/ \E a \in Agents : BothRegister(a, BackendPriority[a])
    \/ \E a \in Agents, s \in Sessions, r \in ResourcesFacade, p \in PredsBackends,
          t \in Ttls, n \in NowsFacade :
            BothAcquire(a, s, r, p, t, n) /\ Cardinality(DOMAIN leases') <= MaxLeases
    \/ \E id \in LeaseIdInputs : BothRelease(id)
    \/ \E id \in LeaseIdInputs, n \in NowsFacade : BothHeartbeat(id, n)
    \/ \E n \in NowsFacade : BothEvictExpired(n)
    \/ Return

SpecBackends == InitBackends /\ [][NextBackends]_vars

(***************************************************************************)
(* client.rs: the facade over the in-memory store, with the intents of a   *)
(* declaration built as the server's handler builds them.                  *)
(***************************************************************************)
MaxIds == 3
MaxItems == 2

\* fn next_id: "klock_{n}" for the counter value n.
KlockId(n) == <<"klock", n>>

\* An SPOTriple with its id.
Intent(id, subject, predicate, object, session_id) ==
    [id |-> id, subject |-> subject, predicate |-> predicate, object |-> object,
     session_id |-> session_id]

\* The items of a declaration: a predicate and a resource each.
Items == [predicate : PredInputs, resource : ResourcesFacade]

\* server.rs declare_intent: the manifest for the items, each intent with
\* the id next_id gives it, counter being id_counter before the first call.
BuildManifest(agent_id, session_id, items, counter) ==
    [session_id |-> session_id, agent_id |-> agent_id,
     intents |-> [k \in DOMAIN items |->
                    Intent(KlockId(counter + k), agent_id, items[k].predicate,
                           items[k].resource, session_id)]]

\* IntentsAfter that registers the intents whatever the verdict.
IntentsAfter_Always(intents, manifest, verdict) == intents \o manifest.intents

\* fn declare_intent: active_intents after the verdict.
IntentsAfter(intents, manifest, verdict) ==
    IF verdict.status = "Granted" THEN intents \o manifest.intents ELSE intents

\* The declare_intent handler: next_id for each item, then
\* KlockClient::declare_intent on the snapshot of store and intents.
DeclareIntent(agent_id, session_id, items) ==
    /\ last = Idle
    /\ id_counter + Len(items) <= MaxIds
    /\ LET manifest == BuildManifest(agent_id, session_id, items, id_counter)
       IN  \E order \in Orders(ActiveLeases(leases)) :
               LET snapshot == [active_leases |-> order,
                                active_intents |-> active_intents,
                                priorities |-> priorities]
                   verdict == execute(snapshot, manifest)
               IN  /\ active_intents' = IntentsAfter(active_intents, manifest, verdict)
                   /\ last' = [op |-> "declare_intent", manifest |-> manifest,
                               result |-> verdict]
    /\ id_counter' = id_counter + Len(items)
    /\ UNCHANGED <<leases, priorities, waits, dcall, ccall, counted, rows, kcall,
                   lock, reqs>>

\* fn release_lease: drop the intents whose id is lease_id, then release.
ReleaseLease(lease_id) ==
    /\ last = Idle
    /\ active_intents' = SelectSeq(active_intents, LAMBDA i : i.id # lease_id)
    /\ IF lease_id \in DOMAIN leases
       THEN /\ leases' = [leases EXCEPT ![lease_id].state = "Released"]
            /\ last' = [op |-> "release_lease", lease_id |-> lease_id, result |-> TRUE]
       ELSE /\ leases' = leases
            /\ last' = [op |-> "release_lease", lease_id |-> lease_id, result |-> FALSE]
    /\ UNCHANGED <<priorities, waits, dcall, ccall, counted, id_counter, rows, kcall,
                   lock, reqs>>

\* KlockClient::new, then register_agent for the two agents.
InitFacade ==
    /\ leases = <<>>
    /\ priorities = [a \in Agents |-> IF a = "a1" THEN 1 ELSE 2]
    /\ last = Idle
    /\ waits = <<>>
    /\ dcall = None
    /\ ccall = None
    /\ counted = None
    /\ active_intents = <<>>
    /\ id_counter = 0
    /\ rows = <<>>
    /\ kcall = None
    /\ lock = None
    /\ reqs = <<>>

NextFacade ==
    \/ \E a \in Agents, s \in Sessions, r \in ResourcesFacade, p \in PredInputs,
          t \in Ttls, n \in NowsFacade :
            Acquire(a, s, r, p, t, n) /\ Cardinality(DOMAIN leases') <= MaxLeases
    \/ \E id \in LeaseIdInputs : ReleaseLease(id)
    \/ \E id \in LeaseIdInputs, n \in NowsFacade : Heartbeat(id, n)
    \/ \E n \in NowsFacade : EvictExpired(n)
    \/ \E a \in Agents, s \in Sessions, items \in SeqsUpTo(Items, MaxItems) :
            DeclareIntent(a, s, items)
    \/ Return

SpecFacade == InitFacade /\ [][NextFacade]_vars

(***************************************************************************)
(* The life of leases: the store with two ttl values and a longer clock,   *)
(* get_active_leases called by itself, and the evictions counted.          *)
(***************************************************************************)
MaxNowLife == 2
MaxTtlLife == 2

NowsLife == 0..MaxNowLife
TtlsLife == 1..MaxTtlLife
ResourcesLife == {ResourceRef("File", "/x")}

\* fn get_active_leases, the Vec in one of the orders HashMap::values gives.
GetActiveLeases ==
    /\ last = Idle
    /\ \E order \in Orders(ActiveLeases(leases)) :
           last' = [op |-> "get_active_leases", result |-> order]
    /\ UNCHANGED <<leases, priorities, waits, dcall, ccall, counted, ext>>

InitLife ==
    /\ leases = <<>>
    /\ priorities = [a \in Agents |-> IF a = "a1" THEN 1 ELSE 2]
    /\ last = Idle
    /\ waits = <<>>
    /\ dcall = None
    /\ ccall = None
    /\ counted = Some({})
    /\ NoExt

NextLife ==
    \/ \E a \in Agents, s \in Sessions, r \in ResourcesLife, p \in PredInputs,
          t \in TtlsLife, n \in NowsLife :
            Acquire(a, s, r, p, t, n) /\ Cardinality(DOMAIN leases') <= MaxLeases
    \/ \E id \in LeaseIdInputs : Release(id)
    \/ \E id \in LeaseIdInputs, n \in NowsLife : Heartbeat(id, n)
    \/ \E n \in NowsLife : EvictExpired(n)
    \/ GetActiveLeases
    \/ Return

SpecLife == InitLife /\ [][NextLife]_vars

(***************************************************************************)
(* Properties.                                                             *)
(***************************************************************************)
Terminal(state) == state \in {"Expired", "Released", "Revoked"}

\* The leases of ls that a request of agent_id for predicate on resource
\* conflicts with: Active, of another agent, on the same key.
ConflictingLeases(ls, agent_id, resource, predicate) ==
    {l \in ActiveLeases(ls) : /\ Key(l.resource) = Key(resource)
                              /\ l.agent_id # agent_id
                              /\ check_pair(l.predicate, predicate)}

\* C2: once the lease stored under an id is Expired, Released or Revoked, no
\* acquire, release, heartbeat or evict_expired makes the lease under that id
\* Active again.
C2_NoResurrection ==
    [][\A id \in DOMAIN leases :
          Terminal(leases[id].state) =>
              id \in DOMAIN leases' /\ leases'[id].state # "Active"]_vars

\* C3: release(lease_id) returns true and marks the lease Released if and
\* only if a lease with that id exists and is Active; otherwise it returns
\* false and leaves the store unchanged.
C3_ReleaseIffActive ==
    [][last'.op = "release" =>
          LET id == last'.lease_id
              active == id \in DOMAIN leases /\ leases[id].state = "Active"
          IN  /\ last'.result = active
              /\ active => leases' = [leases EXCEPT ![id].state = "Released"]
              /\ ~active => leases' = leases]_vars

\* C4: a lease changes state only from Active; a lease that is Expired,
\* Released or Revoked keeps exactly that state under every later call.
C4_TerminalStateKept ==
    [][\A id \in DOMAIN leases :
          Terminal(leases[id].state) =>
              id \in DOMAIN leases' /\ leases'[id].state = leases[id].state]_vars

\* C9: a granted acquire returns a lease that is Active, with acquired_at =
\* last_heartbeat = now, expires_at = now + ttl and the requested agent,
\* session, resource and predicate, and the store lists it as active.
C9_GrantedLease ==
    (last.op = "acquire" /\ last.result.kind = "Success") =>
        LET l == last.result.lease
        IN  /\ l.state = "Active"
            /\ l.acquired_at = last.now
            /\ l.last_heartbeat = last.now
            /\ l.expires_at = last.now + last.ttl
            /\ l.ttl = last.ttl
            /\ l.agent_id = last.agent_id
            /\ l.session_id = last.session_id
            /\ l.resource = last.resource
            /\ l.predicate = last.predicate
            /\ l \in ActiveLeases(leases)

\* C9 witness: a grant at a time after 0 into a store that held a lease.
C9_Witness ==
    /\ last.op = "acquire"
    /\ last.result.kind = "Success"
    /\ last.now > 0
    /\ Cardinality(DOMAIN leases) = 2
    /\ last.result.lease \in ActiveLeases(leases)

\* C10: a refused acquire answers Failure{Wait, None} or Failure{Die, 1000},
\* creates no lease, changes no lease that is not expired at now, and leaves
\* as Active exactly the leases that were Active and not expired at now.
C10_RefusedAcquire ==
    [][(last'.op = "acquire" /\ last'.result.kind = "Failure") =>
          /\ last'.result.reason \in {"Wait", "Die"}
          /\ last'.result.reason = "Wait" => last'.result.wait_time = None
          /\ last'.result.reason = "Die" => last'.result.wait_time = Some(1000)
          /\ DOMAIN leases' = DOMAIN leases
          /\ \A id \in DOMAIN leases :
                ~(leases[id].state = "Active" /\ leases[id].expires_at < last'.now)
                    => leases'[id] = leases[id]
          /\ ActiveLeases(leases') =
                {l \in ActiveLeases(leases) : l.expires_at >= last'.now}]_vars

\* C10 witness: an acquire answered Wait that also expired a lease.
C10_Witness ==
    /\ last.op = "acquire"
    /\ last.result.kind = "Failure"
    /\ last.result.reason = "Wait"
    /\ \E id \in DOMAIN leases :
          leases[id].state = "Expired" /\ leases[id].expires_at < last.now

\* C7: if the request conflicts with leases of other agents on the resource
\* and each of them has expires_at < now, acquire expires them and grants the
\* request, whatever the priorities.
C7_ExpiryUnblocks ==
    [][(/\ last'.op = "acquire"
        /\ ConflictingLeases(leases, last'.agent_id, last'.resource,
                             last'.predicate) # {}
        /\ \A l \in ConflictingLeases(leases, last'.agent_id, last'.resource,
                                      last'.predicate) : l.expires_at < last'.now)
       => /\ last'.result.kind = "Success"
          /\ \A l \in ConflictingLeases(leases, last'.agent_id, last'.resource,
                                        last'.predicate) :
                leases'[l.id].state = "Expired"]_vars

\* C7 witness: an agent without priority was granted a lease over an expired
\* conflicting lease of another agent.
C7_Witness ==
    /\ last.op = "acquire"
    /\ last.result.kind = "Success"
    /\ last.agent_id \notin DOMAIN priorities
    /\ \E id \in DOMAIN leases :
          /\ leases[id].state = "Expired"
          /\ leases[id].agent_id # last.agent_id
          /\ Key(leases[id].resource) = Key(last.resource)
          /\ check_pair(leases[id].predicate, last.predicate)
          /\ leases[id].expires_at < last.now

\* C8: when no Active lease of another agent on the same resource key
\* conflicts with the request, acquire is granted whatever the priorities;
\* a Consumes request over Consumes leases of other agents is granted and
\* those of them not expired at now stay Active.
C8_NoConflictGranted ==
    [][last'.op = "acquire" =>
          /\ ConflictingLeases(leases, last'.agent_id, last'.resource,
                               last'.predicate) = {}
                => /\ last'.result.kind = "Success"
                   /\ last'.result.lease \in ActiveLeases(leases')
          /\ (/\ last'.predicate = "Consumes"
              /\ \A l \in ActiveLeases(leases) :
                    (Key(l.resource) = Key(last'.resource)
                        /\ l.agent_id # last'.agent_id) => l.predicate = "Consumes")
                => /\ last'.result.kind = "Success"
                   /\ \A l \in ActiveLeases(leases) :
                         (l.agent_id # last'.agent_id /\ l.expires_at >= last'.now)
                             => l \in ActiveLeases(leases')]_vars

\* C8 witness: two agents without priority hold Consumes on one resource.
C8_Witness ==
    /\ last.op = "acquire"
    /\ last.result.kind = "Success"
    /\ priorities = <<>>
    /\ \E l1, l2 \in ActiveLeases(leases) :
          /\ l1.agent_id # l2.agent_id
          /\ Key(l1.resource) = Key(l2.resource)
          /\ l1.predicate = "Consumes"
          /\ l2.predicate = "Consumes"
          /\ l2 = last.result.lease

\* The leases handed to decide that conflict with the request: same key,
\* another agent, conflicting predicate.
DecideConflicts ==
    {dcall.active_leases[i] : i \in
        {j \in 1..Len(dcall.active_leases) :
            /\ Key(dcall.active_leases[j].resource) = Key(dcall.resource)
            /\ dcall.active_leases[j].agent_id # dcall.requesting_agent_id
            /\ check_pair(dcall.active_leases[j].predicate, dcall.requesting_predicate)}}

\* The agents that hold them.
DecideHolders == {l.agent_id : l \in DecideConflicts}

\* C5: a requester without registered priority that conflicts with an Active
\* lease of another agent is answered Die with retry_after_ms = 1000 and no
\* held_by, whether or not the holders have priorities.
C5_MissingPriorityDies ==
    (/\ last.op = "decide"
     /\ dcall.requesting_agent_id \notin DOMAIN dcall.priorities
     /\ DecideConflicts # {})
        => /\ last.result.status = "Die"
           /\ last.result.retry_after_ms = Some(1000)
           /\ last.result.held_by = None

\* C5 witness: the requester has no priority, one conflicting holder has one
\* and another has none.
C5_Witness ==
    /\ last.op = "decide"
    /\ dcall.requesting_agent_id \notin DOMAIN dcall.priorities
    /\ \E h1, h2 \in DecideHolders :
          h1 \in DOMAIN dcall.priorities /\ h2 \notin DOMAIN dcall.priorities
    /\ last.result.status = "Die"

\* C6: with exactly one conflicting holder and both priorities registered,
\* decide answers Wait (held_by the holder, no retry delay) if and only if
\* the requester's priority is strictly lower than the holder's, and
\* otherwise Die with held_by the holder and retry_after_ms = 1000.
C6_OneHolderWaitOrDie ==
    (/\ last.op = "decide"
     /\ Cardinality(DecideHolders) = 1
     /\ dcall.requesting_agent_id \in DOMAIN dcall.priorities
     /\ DecideHolders \subseteq DOMAIN dcall.priorities)
        => \A holder \in DecideHolders :
              LET older == dcall.priorities[dcall.requesting_agent_id]
                               < dcall.priorities[holder]
              IN  /\ last.result.status = "Wait" <=> older
                  /\ older => /\ last.result.held_by = Some(holder)
                              /\ last.result.retry_after_ms = None
                  /\ ~older => /\ last.result.status = "Die"
                               /\ last.result.held_by = Some(holder)
                               /\ last.result.retry_after_ms = Some(1000)

\* C6 witness: one conflicting holder of the same priority as the requester,
\* beside a lease on another resource.
C6_Witness ==
    /\ last.op = "decide"
    /\ Cardinality(DecideHolders) = 1
    /\ Len(dcall.active_leases) = 2
    /\ Cardinality(DecideConflicts) = 1
    /\ dcall.requesting_agent_id \in DOMAIN dcall.priorities
    /\ \A holder \in DecideHolders :
          /\ holder \in DOMAIN dcall.priorities
          /\ dcall.priorities[holder] = dcall.priorities[dcall.requesting_agent_id]
    /\ last.result.status = "Die"

\* Agent a was answered Wait on its latest request, and agent b still holds
\* one of the leases that conflicted with that request.
WaitsOn(a, b) ==
    /\ a \in DOMAIN waits
    /\ waits[a] # None
    /\ \E id \in waits[a][1].blockers :
          /\ id \in DOMAIN leases
          /\ leases[id].state = "Active"
          /\ leases[id].agent_id = b
          /\ Key(leases[id].resource) = Key(waits[a][1].resource)
          /\ check_pair(leases[id].predicate, waits[a][1].predicate)

HoldsActive(a) == \E l \in ActiveLeases(leases) : l.agent_id = a

\* A cycle of agents, each holding an Active lease and waiting on the next.
WaitCycle ==
    \E n \in 2..Cardinality(AgentsWD) :
        \E c \in [1..n -> AgentsWD] :
            /\ \A i, j \in 1..n : c[i] = c[j] => i = j
            /\ \A i \in 1..n : HoldsActive(c[i]) /\ WaitsOn(c[i], c[(i % n) + 1])

\* C1: with registered agents of pairwise distinct priorities, after any
\* sequence of acquire, release, heartbeat and evict_expired there is no cycle
\* of agents each holding an Active lease and answered Wait on a resource on
\* which the next agent of the cycle holds a conflicting Active lease.
C1_NoWaitCycle == ~WaitCycle

(***************************************************************************)
(* Eviction, heartbeat and the active list (SpecLife).                     *)
(***************************************************************************)
\* The step is a call of the named operation returning.
Returned(op) == last = Idle /\ last'.op = op

\* C11: evict_expired(now) changes to Expired exactly the leases that are
\* Active with expires_at < now, returns their number and leaves every other
\* lease as it was; a lease with expires_at >= now stays Active.
C11_EvictExact ==
    [][Returned("evict_expired") =>
        LET due == {id \in DOMAIN leases :
                        leases[id].state = "Active" /\ leases[id].expires_at < last'.now}
        IN  /\ DOMAIN leases' = DOMAIN leases
            /\ last'.result = Cardinality(due)
            /\ \A id \in due :
                   /\ leases'[id].state = "Expired"
                   /\ \A f \in DOMAIN leases[id] \ {"state"} :
                          leases'[id][f] = leases[id][f]
            /\ \A id \in DOMAIN leases \ due : leases'[id] = leases[id]]_vars

\* An eviction that expired one lease and kept one whose expires_at is now.
C11_Witness ==
    /\ last.op = "evict_expired"
    /\ last.result = 1
    /\ \E id \in DOMAIN leases :
           leases[id].state = "Expired" /\ leases[id].expires_at < last.now
    /\ \E id \in DOMAIN leases :
           leases[id].state = "Active" /\ leases[id].expires_at = last.now

\* C12: over any sequence of operations a lease is counted in the return
\* value of at most one evict_expired call: no call expires a lease id that
\* an earlier call has already counted.
C12_CountedOnce ==
    [][(Returned("evict_expired") /\ counted # None) =>
        \A id \in DOMAIN leases :
            (leases[id].state = "Active" /\ leases'[id].state = "Expired")
                => id \notin counted[1]]_vars

\* C13: heartbeat(lease_id, now) on an Active lease sets last_heartbeat = now
\* and expires_at = now + ttl, leaves every other field and every other lease
\* as it was and returns true; on an unknown id or a lease that is not Active
\* it returns false and changes nothing.
C13_HeartbeatEffect ==
    [][Returned("heartbeat") =>
        LET id == last'.lease_id
        IN  IF id \in DOMAIN leases /\ leases[id].state = "Active"
            THEN /\ last'.result = TRUE
                 /\ DOMAIN leases' = DOMAIN leases
                 /\ leases'[id].last_heartbeat = last'.now
                 /\ leases'[id].expires_at = last'.now + leases[id].ttl
                 /\ \A f \in DOMAIN leases[id] \ {"last_heartbeat", "expires_at"} :
                        leases'[id][f] = leases[id][f]
                 /\ \A other \in DOMAIN leases \ {id} : leases'[other] = leases[other]
            ELSE /\ last'.result = FALSE
                 /\ leases' = leases]_vars

\* A heartbeat that moved the expiry of an Active lease while another lease
\* of the store is not Active.
C13_Witness ==
    /\ last.op = "heartbeat"
    /\ last.result = TRUE
    /\ leases[last.lease_id].acquired_at < last.now
    /\ leases[last.lease_id].ttl = MaxTtlLife
    /\ \E other \in DOMAIN leases : leases[other].state # "Active"

\* C14: a heartbeat of an Active lease leaves expires_at = now + ttl, also
\* when it repeats the now of the beat before it (the lease is then as it
\* was); a heartbeat with a now later than the beat before it strictly
\* increases expires_at; and evict_expired(t) with t <= h + ttl does not
\* expire a lease whose last beat was at h.
C14_HeartbeatRenews ==
    [][/\ (Returned("heartbeat") /\ last'.result = TRUE) =>
            LET id == last'.lease_id
            IN  /\ leases'[id].expires_at = last'.now + leases'[id].ttl
                /\ last'.now = leases[id].last_heartbeat => leases'[id] = leases[id]
                /\ last'.now > leases[id].last_heartbeat =>
                       leases'[id].expires_at > leases[id].expires_at
       /\ Returned("evict_expired") =>
            \A id \in DOMAIN leases :
                (/\ leases[id].state = "Active"
                 /\ last'.now <= leases[id].last_heartbeat + leases[id].ttl)
                    => leases'[id].state = "Active"]_vars

\* An eviction at a time the lease would not have lived to without its
\* heartbeat: acquired_at + ttl < t <= last_heartbeat + ttl.
C14_Witness ==
    /\ last.op = "evict_expired"
    /\ \E id \in DOMAIN leases :
           /\ leases[id].state = "Active"
           /\ leases[id].acquired_at + leases[id].ttl < last.now
           /\ last.now <= leases[id].last_heartbeat + leases[id].ttl

\* The step is the granted acquire that stored the lease id.
GrantedAs(id) ==
    /\ Returned("acquire")
    /\ last'.result.kind = "Success"
    /\ last'.result.lease.id = id

\* C15: in every reachable state every lease, Active or terminal, has
\* expires_at = last_heartbeat + ttl, and its ttl is the one given to the
\* acquire that stored it.
C15_ExpiryWindow ==
    /\ [](\A id \in DOMAIN leases :
            leases[id].expires_at = leases[id].last_heartbeat + leases[id].ttl)
    /\ [][\A id \in DOMAIN leases' :
            \/ GrantedAs(id) /\ leases'[id].ttl = last'.ttl
            \/ id \in DOMAIN leases /\ leases'[id].ttl = leases[id].ttl]_vars

\* A terminal lease of the longer ttl that was heart-beaten after its grant.
C15_Witness ==
    \E id \in DOMAIN leases :
        /\ Terminal(leases[id].state)
        /\ leases[id].ttl = MaxTtlLife
        /\ leases[id].last_heartbeat > leases[id].acquired_at

\* C16: immediately after acquire(..., now) or evict_expired(now) returns,
\* no lease with expires_at < now is Active.
C16_ExpiredBySilence ==
    last.op \in {"acquire", "evict_expired"} =>
        \A id \in DOMAIN leases :
            leases[id].expires_at < last.now => leases[id].state # "Active"

\* An acquire after which a lease is Expired although no evict_expired call
\* has ever counted a lease: the acquire expired it.
C16_Witness ==
    /\ last.op = "acquire"
    /\ counted = Some({})
    /\ \E id \in DOMAIN leases :
           leases[id].state = "Expired" /\ leases[id].expires_at < last.now

\* C17: get_active_leases returns exactly the leases whose state is Active,
\* each once; released and expired leases stay in the store and are not in
\* the result.
C17_ActiveList ==
    [][/\ DOMAIN leases \subseteq DOMAIN leases'
       /\ Returned("get_active_leases") =>
            LET result == last'.result
            IN  /\ {result[i] : i \in DOMAIN result}
                     = {leases[id] : id \in {x \in DOMAIN leases :
                                                  leases[x].state = "Active"}}
                /\ \A i, j \in DOMAIN result : result[i] = result[j] => i = j]_vars

\* A list of one Active lease taken while the store also holds a terminal one.
C17_Witness ==
    /\ last.op = "get_active_leases"
    /\ Len(last.result) = 1
    /\ \E id \in DOMAIN leases : Terminal(leases[id].state)

(***************************************************************************)
(* The conflict engine (SpecConflict).                                     *)
(***************************************************************************)
\* The triple is of the (agent, session) pair that makes the request.
SamePair(existing, new_triple) ==
    existing.subject = new_triple.subject /\ existing.session_id = new_triple.session_id

\* C18: a request of an (agent, session) pair is never reported as a
\* conflict, nor answered Wait or Die, on account of what the same pair
\* holds: a Conflict of check names an existing triple of another pair that
\* is on the same key and conflicts, and a Wait or Die of decide has a
\* conflicting lease of another agent on the same key behind it and never
\* names the requester as the holder.
C18_Reentrant ==
    /\ last.op = "check" =>
          (last.result.kind = "Conflict" =>
              \E i \in DOMAIN ccall.existing_triples :
                  LET existing == ccall.existing_triples[i]
                  IN  /\ ~SamePair(existing, ccall.new_triple)
                      /\ Key(existing.object) = Key(ccall.new_triple.object)
                      /\ check_pair(existing.predicate, ccall.new_triple.predicate)
                      /\ last.result.reason[3] = existing.subject
                      /\ last.result.reason[4] = existing.predicate)
    /\ last.op = "decide" =>
          (last.result.status # "Granted" =>
              /\ \E i \in DOMAIN dcall.active_leases :
                     LET lease == dcall.active_leases[i]
                     IN  /\ lease.agent_id # dcall.requesting_agent_id
                         /\ Key(lease.resource) = Key(dcall.resource)
                         /\ check_pair(lease.predicate, dcall.requesting_predicate)
              /\ last.result.held_by # Some(dcall.requesting_agent_id))

\* A check that answered Ok although every existing triple is on the key of
\* the new one with a conflicting predicate: they are all of the same pair.
C18_Witness ==
    /\ last.op = "check"
    /\ last.result = ConflictOk
    /\ Len(ccall.existing_triples) = MaxExisting
    /\ \A i \in DOMAIN ccall.existing_triples :
           LET existing == ccall.existing_triples[i]
           IN  /\ Key(existing.object) = Key(ccall.new_triple.object)
               /\ check_pair(existing.predicate, ccall.new_triple.predicate)

\* C19: check returns Ok whenever every existing triple has a resource key
\* different from the key of the new triple, whatever the agents, sessions
\* and predicates.
C19_ResourceIsolation ==
    (/\ last.op = "check"
     /\ \A i \in DOMAIN ccall.existing_triples :
            Key(ccall.existing_triples[i].object) # Key(ccall.new_triple.object))
        => last.result = ConflictOk

\* An Ok for a Mutates against two Mutates of another agent and session
\* that are on another key.
C19_Witness ==
    /\ last.op = "check"
    /\ last.result = ConflictOk
    /\ ccall.new_triple.predicate = "Mutates"
    /\ Len(ccall.existing_triples) = MaxExisting
    /\ \A i \in DOMAIN ccall.existing_triples :
           LET existing == ccall.existing_triples[i]
           IN  /\ Key(existing.object) # Key(ccall.new_triple.object)
               /\ existing.predicate = "Mutates"
               /\ existing.subject # ccall.new_triple.subject
               /\ existing.session_id # ccall.new_triple.session_id

\* The predicates that conflict with every predicate.
Writers == {"Mutates", "Deletes", "Renames"}

\* C20: for all 36 pairs check_pair(held, requesting) is true exactly when
\* one of the two is Mutates, Deletes or Renames, or both are Provides.
C20_CheckPairMatrix ==
    last.op = "check_pair" =>
        (last.result <=> \/ ccall.held \in Writers
                         \/ ccall.requesting \in Writers
                         \/ ccall.held = "Provides" /\ ccall.requesting = "Provides")

\* check_pair has answered that two Provides conflict.
C20_Witness ==
    /\ last.op = "check_pair"
    /\ ccall.held = "Provides"
    /\ ccall.requesting = "Provides"
    /\ last.result = TRUE

\* The predicates whose cell on the diagonal of the matrix is false.
SelfConflicting == {"Provides", "Mutates", "Deletes", "Renames"}

\* C21: when an agent has declared P on a resource and another agent in
\* another session declares P on the same resource, check returns Conflict
\* for P in {Provides, Mutates, Deletes, Renames}; for P in {Consumes,
\* DependsOn}, against existing declarations of P only, it returns Ok.
C21_DiagonalConflict ==
    last.op = "check" =>
        LET new_triple == ccall.new_triple
            existing_triples == ccall.existing_triples
            P == new_triple.predicate
        IN  /\ (/\ P \in SelfConflicting
                /\ \E i \in DOMAIN existing_triples :
                       /\ existing_triples[i].predicate = P
                       /\ existing_triples[i].object = new_triple.object
                       /\ existing_triples[i].subject # new_triple.subject
                       /\ existing_triples[i].session_id # new_triple.session_id)
                   => last.result.kind = "Conflict"
            /\ (/\ P \in Predicate \ SelfConflicting
                /\ \A i \in DOMAIN existing_triples :
                       existing_triples[i].predicate = P)
                   => last.result = ConflictOk

\* A Conflict for a Provides declared against the Provides of another agent
\* in another session on the same resource.
C21_Witness ==
    /\ last.op = "check"
    /\ last.result.kind = "Conflict"
    /\ ccall.new_triple.predicate = "Provides"
    /\ Len(ccall.existing_triples) = 1
    /\ ccall.existing_triples[1].predicate = "Provides"
    /\ ccall.existing_triples[1].object = ccall.new_triple.object
    /\ ccall.existing_triples[1].subject # ccall.new_triple.subject
    /\ ccall.existing_triples[1].session_id # ccall.new_triple.session_id

(***************************************************************************)
(* The kernel (SpecKernel).                                                *)
(***************************************************************************)
\* The scheduler's verdict for the i-th intent of the manifest of kcall.
IntentVerdict(i) ==
    decide(kcall.manifest.agent_id, kcall.manifest.intents[i].predicate,
           kcall.manifest.intents[i].object, kcall.state.active_leases,
           kcall.state.priorities)

IntentStatuses == {IntentVerdict(i).status : i \in DOMAIN kcall.manifest.intents}

\* The sequence in reverse order.
Reverse(xs) == [i \in DOMAIN xs |-> xs[Len(xs) + 1 - i]]

\* C22: the status of execute is Die iff the scheduler returns Die for at
\* least one intent, Wait iff none yields Die and at least one yields Wait,
\* Granted otherwise; the manifest with its intents in reverse order has the
\* same status.
C22_WorstWins ==
    last.op = "execute" =>
        /\ last.result.status = "Die" <=> "Die" \in IntentStatuses
        /\ last.result.status = "Wait" <=>
               ("Die" \notin IntentStatuses /\ "Wait" \in IntentStatuses)
        /\ last.result.status = "Granted" <=> IntentStatuses \subseteq {"Granted"}
        /\ execute(kcall.state,
                   [kcall.manifest EXCEPT !.intents = Reverse(@)]).status
              = last.result.status

\* A Die for a manifest whose first intent the scheduler kills and whose
\* second it makes wait.
C22_Witness ==
    /\ last.op = "execute"
    /\ last.result.status = "Die"
    /\ Len(kcall.manifest.intents) = 2
    /\ IntentVerdict(1).status = "Die"
    /\ IntentVerdict(2).status = "Wait"

\* The last intent of the manifest whose scheduler verdict has the status.
LastWith(status) ==
    CHOOSE i \in DOMAIN kcall.manifest.intents :
        /\ IntentVerdict(i).status = status
        /\ \A j \in DOMAIN kcall.manifest.intents :
               IntentVerdict(j).status = status => j <= i

\* C23: reason, held_by and retry_after_ms of the verdict are those of the
\* last intent whose scheduler verdict has the final status: the retry delay
\* is set iff the status is Die, a Wait carries the holder of its last Wait
\* and no delay, and a Granted carries none of the three.
C23_VerdictFields ==
    last.op = "execute" =>
        LET v == last.result
        IN  /\ v.retry_after_ms # None <=> v.status = "Die"
            /\ v.status = "Granted" =>
                   v.reason = None /\ v.held_by = None /\ v.retry_after_ms = None
            /\ v.status = "Wait" =>
                   /\ v.reason = IntentVerdict(LastWith("Wait")).reason
                   /\ v.held_by = IntentVerdict(LastWith("Wait")).held_by
                   /\ v.held_by # None
                   /\ v.retry_after_ms = None
            /\ v.status = "Die" =>
                   /\ v.reason = IntentVerdict(LastWith("Die")).reason
                   /\ v.held_by = IntentVerdict(LastWith("Die")).held_by
                   /\ v.retry_after_ms = IntentVerdict(LastWith("Die")).retry_after_ms

\* A Wait for two intents that wait on different holders: held_by is the
\* holder of the second.
C23_Witness ==
    /\ last.op = "execute"
    /\ last.result.status = "Wait"
    /\ Len(kcall.manifest.intents) = 2
    /\ IntentVerdict(1).held_by # IntentVerdict(2).held_by
    /\ last.result.held_by = IntentVerdict(2).held_by

\* The i-th intent of the manifest conflicts with an active intent: one of
\* another (agent, session) on the same key with a conflicting predicate.
HitsIntent(i) ==
    LET intent == kcall.manifest.intents[i]
    IN  \E k \in DOMAIN kcall.state.active_intents :
            LET existing == kcall.state.active_intents[k]
            IN  /\ Key(existing.object) = Key(intent.object)
                /\ ~SamePair(existing, intent)
                /\ check_pair(existing.predicate, intent.predicate)

\* The i-th intent conflicts with an active lease of another agent.
HitsLease(i) ==
    LET intent == kcall.manifest.intents[i]
    IN  \E k \in DOMAIN kcall.state.active_leases :
            LET lease == kcall.state.active_leases[k]
            IN  /\ Key(lease.resource) = Key(intent.object)
                /\ lease.agent_id # kcall.manifest.agent_id
                /\ check_pair(lease.predicate, intent.predicate)

\* C24: conflicts is not empty whenever the status is Wait or Die, it has one
\* entry per intent that conflicts with an active intent or whose scheduler
\* verdict is not Granted, and it is empty when no intent of the manifest
\* conflicts with an active intent or an active lease.
C24_ConflictsList ==
    last.op = "execute" =>
        LET n == DOMAIN kcall.manifest.intents
        IN  /\ last.result.status \in {"Wait", "Die"} => last.result.conflicts # <<>>
            /\ Len(last.result.conflicts)
                  = Cardinality({i \in n : HitsIntent(i)
                                             \/ IntentVerdict(i).status # "Granted"})
            /\ (\A i \in n : ~HitsIntent(i) /\ ~HitsLease(i))
                  => last.result.conflicts = <<>>

\* A Wait with one entry for a manifest of two intents: one is refused by a
\* lease, without a conflicting active intent, and the other is free.
C24_Witness ==
    /\ last.op = "execute"
    /\ last.result.status = "Wait"
    /\ Len(kcall.manifest.intents) = 2
    /\ Len(last.result.conflicts) = 1
    /\ \A i \in DOMAIN kcall.manifest.intents : ~HitsIntent(i)

(***************************************************************************)
(* The facade (SpecFacade).                                                *)
(***************************************************************************)
\* C25: declare_intent appends every intent of the manifest to the active
\* intents iff the verdict is Granted; on Wait or Die the list is unchanged;
\* in every case the lease store and the priority map are unchanged.
C25_DeclareIntentEffect ==
    [][Returned("declare_intent") =>
        /\ leases' = leases
        /\ priorities' = priorities
        /\ IF last'.result.status = "Granted"
           THEN active_intents' = active_intents \o last'.manifest.intents
           ELSE active_intents' = active_intents]_vars

\* A granted declaration of two intents, appended after an earlier one.
C25_Witness ==
    /\ last.op = "declare_intent"
    /\ last.result.status = "Granted"
    /\ Len(last.manifest.intents) = 2
    /\ Len(active_intents) = 3
    /\ leases # <<>>

\* C26: after release_lease(id) has released an agent's lease, the intents
\* that agent and session declared on the resource of the lease are no longer
\* active (the pair holding no other Active lease on that resource), so they
\* no longer conflict with the declarations of other agents.
C26_ReleaseDropsIntents ==
    (/\ last.op = "release_lease"
     /\ last.result = TRUE)
        => LET lease == leases[last.lease_id]
           IN  (\A other \in DOMAIN leases :
                    (/\ leases[other].state = "Active"
                     /\ leases[other].agent_id = lease.agent_id
                     /\ leases[other].session_id = lease.session_id)
                        => Key(leases[other].resource) # Key(lease.resource))
               => \A k \in DOMAIN active_intents :
                      ~(/\ active_intents[k].subject = lease.agent_id
                        /\ active_intents[k].session_id = lease.session_id
                        /\ Key(active_intents[k].object) = Key(lease.resource))

\* C27: an acquire never changes an unexpired Active lease of another
\* agent and a declare_intent changes no lease; a lease leaves Active only
\* by the release of its own id or by the eviction of an expired lease; no
\* lease is ever Revoked.
C27_NoPreemption ==
    [][/\ Returned("acquire") =>
            \A id \in DOMAIN leases :
                (/\ leases[id].agent_id # last'.agent_id
                 /\ leases[id].state = "Active"
                 /\ leases[id].expires_at >= last'.now)
                    => id \in DOMAIN leases' /\ leases'[id] = leases[id]
       /\ Returned("declare_intent") => leases' = leases
       /\ \A id \in DOMAIN leases :
            (leases[id].state = "Active" /\ leases'[id].state # "Active") =>
                \/ /\ Returned("release_lease")
                   /\ last'.lease_id = id
                   /\ leases'[id].state = "Released"
                \/ /\ Returned("evict_expired") \/ Returned("acquire")
                   /\ leases[id].expires_at < last'.now
                   /\ leases'[id].state = "Expired"
       /\ DOMAIN leases \subseteq DOMAIN leases'
       /\ \A id \in DOMAIN leases' : leases'[id].state # "Revoked"]_vars

\* An older agent made to wait by the acquire: the conflicting lease of
\* the younger holder is Active after it.
C27_Witness ==
    /\ last.op = "acquire"
    /\ last.result.kind = "Failure"
    /\ last.result.reason = "Wait"
    /\ \E id \in DOMAIN leases :
           /\ leases[id].state = "Active"
           /\ leases[id].agent_id # last.agent_id
           /\ Key(leases[id].resource) = Key(last.resource)
           /\ check_pair(leases[id].predicate, last.predicate)

\* C28: after every call made on both stores with the same arguments, the
\* in-memory store and the SQLite store have returned the same result and
\* expose the same set of active leases.
C28_BackendEquivalence ==
    "sql_result" \in DOMAIN last
        => /\ last.result = last.sql_result
           /\ ActiveLeases(leases) = SqlActiveLeases(rows)

\* C29: when the INSERT of acquire has failed, the caller has not received a
\* Success lease that is absent from the active leases of the store.
C29_InsertFailureNoSuccess ==
    (/\ last.op = "acquire"
     /\ "insert_failed" \in DOMAIN last
     /\ last.insert_failed)
        => ~(/\ last.sql_result.kind = "Success"
             /\ last.sql_result.lease \notin SqlActiveLeases(rows))

(***************************************************************************)
(* klock-cli/src/server.rs: the handlers, each a task on one               *)
(* Arc<Mutex<KlockClient>>.                                                *)
(***************************************************************************)
MaxConns == 2
MaxNowServer == 2
MaxIdsServer == 2

Conns == 1..MaxConns
NowsServer == {0, MaxNowServer}
NoRequest == [pc |-> "none"]

\* The KlockClient behind the mutex.
ClientState ==
    [leases |-> leases, priorities |-> priorities,
     active_intents |-> active_intents, id_counter |-> id_counter]

\* The bodies of the requests the routes accept after validation.
ItemsServer == [predicate : {"Mutates"}, resource : ResourcesFacade]

\* The agent behind each connection.
ConnAgent == [c \in Conns |-> IF c = 1 THEN "a1" ELSE "a2"]

\* The lease ids a connection names in its paths: those its agent was given,
\* and one the store has never held.
OwnLeaseIds(c) ==
    {id \in DOMAIN leases : leases[id].agent_id = ConnAgent[c]} \cup {UnknownLeaseId}

ServerRequests(c) ==
    {[kind |-> "register_agent", agent_id |-> a, priority |-> BackendPriority[a]] :
        a \in {ConnAgent[c]}}
    \cup {[kind |-> "acquire_lease", agent_id |-> a, session_id |-> s, resource |-> r,
           predicate |-> "Mutates", ttl |-> t] :
              a \in {ConnAgent[c]}, s \in Sessions, r \in ResourcesFacade, t \in Ttls}
    \cup {[kind |-> "release_lease", lease_id |-> id] : id \in OwnLeaseIds(c)}
    \cup {[kind |-> "heartbeat_lease", lease_id |-> id] : id \in OwnLeaseIds(c)}
    \cup {[kind |-> "declare_intent", agent_id |-> a, session_id |-> s, items |-> items] :
              a \in {ConnAgent[c]}, s \in Sessions,
              items \in SeqsUpTo(ItemsServer, MaxItems) \ {<<>>}}
    \cup {[kind |-> "evict_expired"], [kind |-> "list_leases"]}

\* The ids the declare_intent requests in flight have still to draw.
RECURSIVE PendingIds(_)
PendingIds(cs) ==
    IF cs = {} THEN 0
    ELSE LET c == CHOOSE x \in cs : TRUE
             n == IF reqs[c].pc \in {"waiting", "locked"}
                     /\ reqs[c].req.kind = "declare_intent"
                  THEN Len(reqs[c].req.items) - Len(reqs[c].ids)
                  ELSE 0
         IN  n + PendingIds(cs \ {c})

\* The acquire_lease requests in flight that have not inserted yet.
PendingLeases ==
    Cardinality({c \in Conns : /\ reqs[c].pc \in {"waiting", "locked", "evicted"}
                               /\ reqs[c].req.kind = "acquire_lease"})

\* A request reaches its handler and passes validation.
Arrive(c, req) ==
    /\ reqs[c] = NoRequest
    /\ req.kind = "declare_intent"
          => id_counter + PendingIds(Conns) + Len(req.items) <= MaxIdsServer
    /\ req.kind = "acquire_lease"
          => Cardinality(DOMAIN leases) + PendingLeases < MaxLeases
    /\ reqs' = [reqs EXCEPT ![c] = [pc |-> "waiting", req |-> req, ids |-> <<>>]]
    /\ UNCHANGED <<leases, priorities, last, waits, dcall, ccall, counted,
                   active_intents, id_counter, rows, kcall, lock>>

\* state.lock() that takes the mutex whether or not it is held.
Lock_NoMutex(c) ==
    /\ reqs[c].pc = "waiting"
    /\ lock' = Some(c)
    /\ reqs' = [reqs EXCEPT ![c] = [pc |-> "locked", req |-> reqs[c].req,
                                    ids |-> <<>>, pre |-> ClientState]]
    /\ UNCHANGED <<leases, priorities, last, waits, dcall, ccall, counted,
                   active_intents, id_counter, rows, kcall>>

\* state.lock().await returns: the mutex was free and the task holds it.
\* pre remembers the client the task found.
Lock(c) ==
    /\ reqs[c].pc = "waiting"
    /\ lock = None
    /\ lock' = Some(c)
    /\ reqs' = [reqs EXCEPT ![c] = [pc |-> "locked", req |-> reqs[c].req,
                                    ids |-> <<>>, pre |-> ClientState]]
    /\ UNCHANGED <<leases, priorities, last, waits, dcall, ccall, counted,
                   active_intents, id_counter, rows, kcall>>

\* The request of task c once served: what it read on the way and its result.
Served(c, now, order, result) ==
    [pc |-> "served", req |-> reqs[c].req, ids |-> reqs[c].ids, pre |-> reqs[c].pre,
     now |-> now, order |-> order, result |-> result]

\* fn register_agent of the server
ServeRegister(c) ==
    /\ reqs[c].pc = "locked"
    /\ reqs[c].req.kind = "register_agent"
    /\ priorities' = Insert(priorities, reqs[c].req.agent_id, reqs[c].req.priority)
    /\ reqs' = [reqs EXCEPT ![c] = Served(c, 0, <<>>, None)]
    /\ UNCHANGED <<leases, last, waits, dcall, ccall, counted, active_intents,
                   id_counter, rows, kcall, lock>>

\* fn acquire_lease of the server, first half: the facade reads the clock and
\* the store evicts.
ServeAcquireEvict(c, now) ==
    /\ reqs[c].pc = "locked"
    /\ reqs[c].req.kind = "acquire_lease"
    /\ leases' = EvictExpiredMap(leases, now)
    /\ reqs' = [reqs EXCEPT ![c] = [pc |-> "evicted", req |-> reqs[c].req,
                                    ids |-> <<>>, pre |-> reqs[c].pre, now |-> now]]
    /\ UNCHANGED <<priorities, last, waits, dcall, ccall, counted, active_intents,
                   id_counter, rows, kcall, lock>>

\* fn acquire_lease of the server, second half: decide and insert.
ServeAcquireDecide(c) ==
    /\ reqs[c].pc = "evicted"
    /\ \E order \in Orders(ActiveLeases(leases)) :
           LET r == reqs[c].req
               out == AcquireOutcome(leases, priorities, r.agent_id, r.session_id,
                                     r.resource, r.predicate, r.ttl, reqs[c].now, order)
           IN  /\ leases' = out.leases
               /\ reqs' = [reqs EXCEPT ![c] = Served(c, reqs[c].now, order, out.result)]
    /\ UNCHANGED <<priorities, last, waits, dcall, ccall, counted, active_intents,
                   id_counter, rows, kcall, lock>>

\* fn release_lease of the server
ServeRelease(c) ==
    /\ reqs[c].pc = "locked"
    /\ reqs[c].req.kind = "release_lease"
    /\ LET lease_id == reqs[c].req.lease_id
       IN  /\ active_intents' = SelectSeq(active_intents, LAMBDA i : i.id # lease_id)
           /\ leases' = IF lease_id \in DOMAIN leases
                        THEN [leases EXCEPT ![lease_id].state = "Released"]
                        ELSE leases
           /\ reqs' = [reqs EXCEPT ![c] = Served(c, 0, <<>>, lease_id \in DOMAIN leases)]
    /\ UNCHANGED <<priorities, last, waits, dcall, ccall, counted, id_counter, rows,
                   kcall, lock>>

\* fn heartbeat_lease of the server: the clock is read under the lock.
ServeHeartbeat(c, now) ==
    /\ reqs[c].pc = "locked"
    /\ reqs[c].req.kind = "heartbeat_lease"
    /\ LET lease_id == reqs[c].req.lease_id
           hit == lease_id \in DOMAIN leases /\ leases[lease_id].state = "Active"
       IN  /\ leases' = IF hit
                        THEN [leases EXCEPT
                                 ![lease_id].last_heartbeat = now,
                                 ![lease_id].expires_at = now + leases[lease_id].ttl]
                        ELSE leases
           /\ reqs' = [reqs EXCEPT ![c] = Served(c, now, <<>>, hit)]
    /\ UNCHANGED <<priorities, last, waits, dcall, ccall, counted, active_intents,
                   id_counter, rows, kcall, lock>>

\* fn evict_expired of the server
ServeEvict(c, now) ==
    /\ reqs[c].pc = "locked"
    /\ reqs[c].req.kind = "evict_expired"
    /\ leases' = EvictExpiredMap(leases, now)
    /\ reqs' = [reqs EXCEPT ![c] = Served(c, now, <<>>, EvictExpiredCount(leases, now))]
    /\ UNCHANGED <<priorities, last, waits, dcall, ccall, counted, active_intents,
                   id_counter, rows, kcall, lock>>

\* fn list_leases of the server
ServeList(c) ==
    /\ reqs[c].pc = "locked"
    /\ reqs[c].req.kind = "list_leases"
    /\ \E order \in Orders(ActiveLeases(leases)) :
           reqs' = [reqs EXCEPT ![c] = Served(c, 0, order, order)]
    /\ UNCHANGED <<leases, priorities, last, waits, dcall, ccall, counted,
                   active_intents, id_counter, rows, kcall, lock>>

\* fn declare_intent of the server, the closure of the map: client.next_id()
\* for the next item.
ServeNextId(c) ==
    /\ reqs[c].pc = "locked"
    /\ reqs[c].req.kind = "declare_intent"
    /\ Len(reqs[c].ids) < Len(reqs[c].req.items)
    /\ id_counter' = id_counter + 1
    /\ reqs' = [reqs EXCEPT ![c].ids = Append(@, KlockId(id_counter + 1))]
    /\ UNCHANGED <<leases, priorities, last, waits, dcall, ccall, counted,
                   active_intents, rows, kcall, lock>>

\* The manifest the handler builds from the items and the ids it drew.
ManifestOf(req, ids) ==
    [session_id |-> req.session_id, agent_id |-> req.agent_id,
     intents |-> [k \in DOMAIN req.items |->
                    Intent(ids[k], req.agent_id, req.items[k].predicate,
                           req.items[k].resource, req.session_id)]]

\* fn declare_intent of the server, after the map: client.declare_intent.
ServeDeclare(c) ==
    /\ reqs[c].pc = "locked"
    /\ reqs[c].req.kind = "declare_intent"
    /\ Len(reqs[c].ids) = Len(reqs[c].req.items)
    /\ \E order \in Orders(ActiveLeases(leases)) :
           LET manifest == ManifestOf(reqs[c].req, reqs[c].ids)
               snapshot == [active_leases |-> order,
                            active_intents |-> active_intents,
                            priorities |-> priorities]
               verdict == execute(snapshot, manifest)
           IN  /\ active_intents' = IntentsAfter(active_intents, manifest, verdict)
               /\ reqs' = [reqs EXCEPT ![c] = Served(c, 0, order, verdict)]
    /\ UNCHANGED <<leases, priorities, last, waits, dcall, ccall, counted, id_counter,
                   rows, kcall, lock>>

\* The handler returns: the guard is dropped and the response leaves.
Unlock(c) ==
    /\ reqs[c].pc = "served"
    /\ lock' = None
    /\ reqs' = [reqs EXCEPT ![c] = NoRequest]
    /\ UNCHANGED <<leases, priorities, last, waits, dcall, ccall, counted,
                   active_intents, id_counter, rows, kcall>>

\* fn run: one client behind the mutex, agent a1 registered, no request yet.
InitServer ==
    /\ leases = <<>>
    /\ priorities = [a \in {"a1"} |-> BackendPriority[a]]
    /\ last = Idle
    /\ waits = <<>>
    /\ dcall = None
    /\ ccall = None
    /\ counted = None
    /\ active_intents = <<>>
    /\ id_counter = 0
    /\ rows = <<>>
    /\ kcall = None
    /\ lock = None
    /\ reqs = [c \in Conns |-> NoRequest]

NextServer ==
    \/ \E c \in Conns : \E req \in ServerRequests(c) : Arrive(c, req)
    \/ \E c \in Conns : Lock(c)
    \/ \E c \in Conns : ServeRegister(c)
    \/ \E c \in Conns, n \in NowsServer : ServeAcquireEvict(c, n)
    \/ \E c \in Conns : ServeAcquireDecide(c)
    \/ \E c \in Conns : ServeRelease(c)
    \/ \E c \in Conns, n \in NowsServer : ServeHeartbeat(c, n)
    \/ \E c \in Conns, n \in NowsServer : ServeEvict(c, n)
    \/ \E c \in Conns : ServeList(c)
    \/ \E c \in Conns : ServeNextId(c)
    \/ \E c \in Conns : ServeDeclare(c)
    \/ \E c \in Conns : Unlock(c)

SpecServer == InitServer /\ [][NextServer]_vars

\* The facade operation of a served request run in one piece on the client
\* st, with the clock value and the iteration order the request met: the
\* client it leaves, the result, and whether st allows that order.
ServeAtomically(st, r) ==
    LET req == r.req
    IN  CASE req.kind = "register_agent" ->
               [state |-> [st EXCEPT !.priorities =
                              Insert(st.priorities, req.agent_id, req.priority)],
                result |-> None, possible |-> TRUE]
          [] req.kind = "acquire_lease" ->
               LET evicted == EvictExpiredMap(st.leases, r.now)
                   out == AcquireOutcome(evicted, st.priorities, req.agent_id,
                                         req.session_id, req.resource, req.predicate,
                                         req.ttl, r.now, r.order)
               IN  [state |-> [st EXCEPT !.leases = out.leases],
                    result |-> out.result,
                    possible |-> r.order \in Orders(ActiveLeases(evicted))]
          [] req.kind = "release_lease" ->
               [state |-> [st EXCEPT
                              !.active_intents =
                                  SelectSeq(st.active_intents,
                                            LAMBDA i : i.id # req.lease_id),
                              !.leases =
                                  IF req.lease_id \in DOMAIN st.leases
                                  THEN [st.leases EXCEPT ![req.lease_id].state = "Released"]
                                  ELSE st.leases],
                result |-> req.lease_id \in DOMAIN st.leases, possible |-> TRUE]
          [] req.kind = "heartbeat_lease" ->
               LET hit == /\ req.lease_id \in DOMAIN st.leases
                          /\ st.leases[req.lease_id].state = "Active"
               IN  [state |-> [st EXCEPT !.leases =
                                  IF hit
                                  THEN [st.leases EXCEPT
                                           ![req.lease_id].last_heartbeat = r.now,
                                           ![req.lease_id].expires_at =
                                               r.now + st.leases[req.lease_id].ttl]
                                  ELSE st.leases],
                    result |-> hit, possible |-> TRUE]
          [] req.kind = "evict_expired" ->
               [state |-> [st EXCEPT !.leases = EvictExpiredMap(st.leases, r.now)],
                result |-> EvictExpiredCount(st.leases, r.now), possible |-> TRUE]
          [] req.kind = "list_leases" ->
               [state |-> st, result |-> r.order,
                possible |-> r.order \in Orders(ActiveLeases(st.leases))]
          [] req.kind = "declare_intent" ->
               LET manifest == BuildManifest(req.agent_id, req.session_id, req.items,
                                             st.id_counter)
                   verdict == execute([active_leases |-> r.order,
                                       active_intents |-> st.active_intents,
                                       priorities |-> st.priorities], manifest)
               IN  [state |-> [st EXCEPT
                                  !.active_intents =
                                      IntentsAfter(st.active_intents, manifest, verdict),
                                  !.id_counter = st.id_counter + Len(req.items)],
                    result |-> verdict,
                    possible |-> r.order \in Orders(ActiveLeases(st.leases))]

\* The tasks between state.lock().await and the return of their handler.
UnderLock == {c \in Conns : reqs[c].pc \in {"locked", "evicted", "served"}}

\* At most one task is under the lock, and a served request has left the
\* client and the result that its operation, run in one piece on the client
\* found at lock time, leaves.
ServedAsSerial ==
    /\ Cardinality(UnderLock) <= 1
    /\ lock = None <=> UnderLock = {}
    /\ \A c \in Conns :
           reqs[c].pc = "served"
               => LET serial == ServeAtomically(reqs[c].pre, reqs[c])
                  IN  /\ serial.possible
                      /\ ClientState = serial.state
                      /\ reqs[c].result = serial.result

\* The client changes only in a step of the task that holds the lock, so
\* the client a task finds at lock time is the one the requests completed
\* before it have left.
OnlyHolderWrites ==
    ClientState' # ClientState
        => /\ lock # None
           /\ lock' = lock
           /\ \A c \in Conns : reqs'[c] # reqs[c] => lock = Some(c)

\* C30: requests served concurrently run their facade operation, the id
\* generation of declare_intent included, under one exclusive lock from
\* beginning to end: every outcome is that of the requests run one after
\* the other in the order they took the lock, and each request sees what
\* the requests completed before it have done.
C30_Linearisable == []ServedAsSerial /\ [][OnlyHolderWrites]_vars

\* A declare_intent is served, its id drawn after that of an earlier one,
\* while an acquire_lease that arrived meanwhile waits for the lock.
C30_Witness ==
    \E c, d \in Conns :
        /\ reqs[c].pc = "served"
        /\ reqs[c].req.kind = "declare_intent"
        /\ reqs[c].ids = <<KlockId(2)>>
        /\ reqs[d].pc = "waiting"
        /\ reqs[d].req.kind = "acquire_lease"

\* C31: the verdict of an acquire (status and held_by) is the same for
\* every order in which the active leases of the store can be enumerated:
\* the result the call returned is the one every order gives.
C31_Deterministic ==
    [][Returned("acquire") =>
          LET evicted == EvictExpiredMap(leases, last'.now)
          IN  \A o1, o2 \in Orders(ActiveLeases(evicted)) :
                  LET v1 == decide(last'.agent_id, last'.predicate, last'.resource,
                                   o1, priorities)
                      v2 == decide(last'.agent_id, last'.predicate, last'.resource,
                                   o2, priorities)
                  IN  /\ v1.status = v2.status
                      /\ v1.held_by = v2.held_by]_vars

(***************************************************************************)
(* klock-cli/src/handlers.rs and server.rs: the validation of the bodies   *)
(* of POST /leases and POST /intents.                                      *)
(***************************************************************************)
MaxItemsEdge == 1
MaxIdsEdge == 2
MaxTtlEdge == 1

VALID_PREDICATES == {"PROVIDES", "CONSUMES", "MUTATES", "DELETES", "DEPENDS_ON", "RENAMES"}
VALID_RESOURCE_TYPES == {"FILE", "SYMBOL", "API_ENDPOINT", "DATABASE_TABLE", "CONFIG_KEY"}

\* str::to_uppercase on the texts the bodies below carry.
ToUppercase(s) ==
    CASE s = "consumes" -> "CONSUMES"
      [] s = "file" -> "FILE"
      [] OTHER -> s

\* fn validate_predicate, fn validate_resource_type: TRUE for Ok.
validate_predicate(predicate) == ToUppercase(predicate) \in VALID_PREDICATES
validate_resource_type(resource_type) == ToUppercase(resource_type) \in VALID_RESOURCE_TYPES

\* AcquireLeaseRequest::validate: TRUE for Ok.
AcquireValidate(req) ==
    /\ req.agent_id # ""
    /\ req.session_id # ""
    /\ req.resource_path # ""
    /\ validate_predicate(req.predicate)
    /\ validate_resource_type(req.resource_type)
    /\ req.ttl # 0

\* DeclareIntentRequest::validate: TRUE for Ok.
DeclareValidate(req) ==
    /\ req.agent_id # ""
    /\ req.session_id # ""
    /\ req.intents # <<>>
    /\ \A i \in DOMAIN req.intents :
           /\ validate_predicate(req.intents[i].predicate)
           /\ validate_resource_type(req.intents[i].resource_type)

\* fn parse_predicate, fn parse_resource_type of the facade, and the same
\* two matches written out in the declare_intent handler.
parse_predicate(s) ==
    LET u == ToUppercase(s)
    IN  CASE u = "PROVIDES" -> "Provides"
          [] u = "CONSUMES" -> "Consumes"
          [] u = "MUTATES" -> "Mutates"
          [] u = "DELETES" -> "Deletes"
          [] u = "DEPENDS_ON" -> "DependsOn"
          [] u = "RENAMES" -> "Renames"
          [] OTHER -> "Consumes"

parse_resource_type(s) ==
    LET u == ToUppercase(s)
    IN  CASE u = "FILE" -> "File"
          [] u = "SYMBOL" -> "Symbol"
          [] u = "API_ENDPOINT" -> "ApiEndpoint"
          [] u = "DATABASE_TABLE" -> "DatabaseTable"
          [] u = "CONFIG_KEY" -> "ConfigKey"
          [] OTHER -> "File"

\* The bodies: each field with a value the rules accept and one they refuse.
IntentItems ==
    [predicate : {"MUTATES", "consumes", "BOGUS"},
     resource_type : {"FILE", "file", "BOGUS"},
     resource_path : {"", "/x"}]

AcquireBodies ==
    [agent_id : {"", "a1", "a2"}, session_id : {"", "s1"},
     resource_type : {"FILE", "file", "BOGUS"}, resource_path : {"", "/x"},
     predicate : {"MUTATES", "consumes", "BOGUS"}, ttl : 0..MaxTtlEdge]

DeclareBodies ==
    [agent_id : {"", "a1", "a2"}, session_id : {"", "s1"},
     intents : SeqsUpTo(IntentItems, MaxItemsEdge)]

\* The items of a body as the closure of the handler reads them.
ItemsOf(req) ==
    [k \in DOMAIN req.intents |->
        [predicate |-> parse_predicate(req.intents[k].predicate),
         resource |-> ResourceRef(parse_resource_type(req.intents[k].resource_type),
                                  req.intents[k].resource_path)]]

\* fn acquire_lease of the server on one body, the clock of the facade at 0.
PostLeases(req) ==
    /\ last = Idle
    /\ IF ~AcquireValidate(req)
       THEN /\ last' = [op |-> "post_leases", req |-> req, status |-> 400]
            /\ UNCHANGED leases
       ELSE LET now == 0
                evicted == EvictExpiredMap(leases, now)
                resource == ResourceRef(parse_resource_type(req.resource_type),
                                        req.resource_path)
            IN  \E order \in Orders(ActiveLeases(evicted)) :
                    LET out == AcquireOutcome(evicted, priorities, req.agent_id,
                                              req.session_id, resource,
                                              parse_predicate(req.predicate),
                                              req.ttl, now, order)
                    IN  /\ leases' = out.leases
                        /\ last' = [op |-> "post_leases", req |-> req,
                                    status |-> IF out.result.kind = "Success"
                                               THEN 201 ELSE 409,
                                    result |-> out.result]
    /\ UNCHANGED <<priorities, waits, dcall, ccall, counted, ext>>

\* fn declare_intent of the server on one body.
PostIntents(req) ==
    /\ last = Idle
    /\ IF ~DeclareValidate(req)
       THEN /\ last' = [op |-> "post_intents", req |-> req, status |-> 400]
            /\ UNCHANGED <<active_intents, id_counter>>
       ELSE /\ id_counter + Len(req.intents) <= MaxIdsEdge
            /\ LET manifest == BuildManifest(req.agent_id, req.session_id,
                                             ItemsOf(req), id_counter)
               IN  \E order \in Orders(ActiveLeases(leases)) :
                       LET verdict == execute([active_leases |-> order,
                                               active_intents |-> active_intents,
                                               priorities |-> priorities], manifest)
                       IN  /\ active_intents' =
                                  IntentsAfter(active_intents, manifest, verdict)
                           /\ last' = [op |-> "post_intents", req |-> req,
                                       status |-> 200, result |-> verdict]
            /\ id_counter' = id_counter + Len(req.intents)
    /\ UNCHANGED <<leases, priorities, waits, dcall, ccall, counted, rows, kcall,
                   lock, reqs>>

NextEdge ==
    \/ \E req \in AcquireBodies : PostLeases(req)
    \/ \E req \in DeclareBodies : PostIntents(req)
    \/ Return

\* fn run with the two agents registered.
SpecEdge == InitFacade /\ [][NextEdge]_vars

\* A field of a body that the input rules refuse.
BadItem(item) ==
    \/ ~validate_predicate(item.predicate)
    \/ ~validate_resource_type(item.resource_type)
    \/ item.resource_path = ""

MalformedAcquire(req) ==
    \/ BadItem(req)
    \/ req.agent_id = ""
    \/ req.session_id = ""
    \/ req.ttl = 0

MalformedDeclare(req) ==
    \/ req.agent_id = ""
    \/ req.session_id = ""
    \/ \E i \in DOMAIN req.intents : BadItem(req.intents[i])

\* C32: a POST /leases or POST /intents body with an unknown predicate, an
\* unknown resource_type, an empty agent_id, session_id or resource_path,
\* or ttl = 0 is answered 400, and the leases, the active intents and the
\* id counter are as before the request.
C32_RejectedAtEdge ==
    [][((/\ Returned("post_leases") /\ MalformedAcquire(last'.req))
        \/ (/\ Returned("post_intents") /\ MalformedDeclare(last'.req)))
          => /\ last'.status = 400
             /\ leases' = leases
             /\ active_intents' = active_intents
             /\ id_counter' = id_counter]_vars

\* C33: when the requester has a priority, decide skips the conflicting
\* holders that have none: if no conflicting holder has a priority the
\* verdict is Granted, and otherwise it is Wait or Die against a holder
\* that has one, Wait exactly when the requester is older than that holder.
C33_UnrankedHolderSkipped ==
    (/\ last.op = "decide"
     /\ dcall.requesting_agent_id \in DOMAIN dcall.priorities
     /\ DecideConflicts # {})
        => LET ranked == DecideHolders \cap DOMAIN dcall.priorities
               mine == dcall.priorities[dcall.requesting_agent_id]
           IN  /\ ranked = {} => last.result.status = "Granted"
               /\ ranked # {} =>
                     /\ last.result.status \in {"Wait", "Die"}
                     /\ \E h \in ranked :
                            /\ last.result.held_by = Some(h)
                            /\ last.result.status = "Wait" <=> mine < dcall.priorities[h]

\* The requester is older than the one holder that has a priority and is
\* answered Wait against it, the holder listed first having none.
C33_Witness ==
    /\ last.op = "decide"
    /\ dcall.requesting_agent_id \in DOMAIN dcall.priorities
    /\ Len(dcall.active_leases) = 2
    /\ dcall.active_leases[1] \in DecideConflicts
    /\ dcall.active_leases[1].agent_id \notin DOMAIN dcall.priorities
    /\ dcall.active_leases[2] \in DecideConflicts
    /\ dcall.active_leases[2].agent_id \in DOMAIN dcall.priorities
    /\ last.result.status = "Wait"
    /\ last.result.held_by = Some(dcall.active_leases[2].agent_id)

\* C34: any two Active leases on the same resource key held by different
\* agents have compatible predicates, in both directions of check_pair.
C34_MutualExclusion ==
    \A i, j \in DOMAIN leases :
        (/\ leases[i].state = "Active"
         /\ leases[j].state = "Active"
         /\ leases[i].agent_id # leases[j].agent_id
         /\ Key(leases[i].resource) = Key(leases[j].resource))
            => /\ ~check_pair(leases[i].predicate, leases[j].predicate)
               /\ ~check_pair(leases[j].predicate, leases[i].predicate)

\* C35: a granted acquire gives the new lease an id that no lease of the
\* store has, and every lease that was Active with expires_at >= now before
\* the call is in the store unchanged after it.
C35_GrantKeepsGrants ==
    [][(/\ Returned("acquire") /\ last'.result.kind = "Success")
          => /\ last'.result.lease.id \notin DOMAIN leases
             /\ \A id \in DOMAIN leases :
                    (/\ leases[id].state = "Active"
                     /\ leases[id].expires_at >= last'.now)
                        => /\ id \in DOMAIN leases'
                           /\ leases'[id] = leases[id]]_vars

\* C36: decide answers Wait only if the requester is strictly older than
\* every conflicting holder that has a priority; if one such holder is as
\* old as the requester or older the verdict is Die, whatever the order of
\* the leases.
C36_WaitOnlyIfOldest ==
    (/\ last.op = "decide"
     /\ dcall.requesting_agent_id \in DOMAIN dcall.priorities
     /\ DecideConflicts # {})
        => LET ranked == DecideHolders \cap DOMAIN dcall.priorities
               mine == dcall.priorities[dcall.requesting_agent_id]
           IN  /\ last.result.status = "Wait"
                     => \A h \in ranked : mine < dcall.priorities[h]
               /\ (\E h \in ranked : dcall.priorities[h] <= mine)
                     => last.result.status = "Die"

\* The registered agents whose priority value no other agent's is below.
Seniors ==
    {a \in DOMAIN priorities : \A b \in DOMAIN priorities : priorities[a] <= priorities[b]}

\* C37: when every agent is registered and the priorities are pairwise
\* distinct, the agent with the lowest priority value is never answered
\* Die: its acquire is a Success or a Wait, its declare_intent Granted or
\* Wait.
C37_SeniorNeverDies ==
    (/\ DOMAIN priorities = Agents
     /\ \A a, b \in Agents : priorities[a] = priorities[b] => a = b)
        => /\ (last.op = "acquire" /\ last.agent_id \in Seniors)
                 => \/ last.result.kind = "Success"
                    \/ last.result.reason = "Wait"
           /\ (last.op = "declare_intent" /\ last.manifest.agent_id \in Seniors)
                 => last.result.status \in {"Granted", "Wait"}

\* The senior agent declares an intent that the Active lease of the other
\* agent refuses, and is told to wait for that agent.
C37_Witness ==
    /\ last.op = "declare_intent"
    /\ last.manifest.agent_id \in Seniors
    /\ last.manifest.intents # <<>>
    /\ last.result.status = "Wait"
    /\ \E a \in Agents \ Seniors : last.result.held_by = Some(a)

\* C38: the active intents never hold two intents on the same resource key
\* that come from different (agent, session) pairs and whose predicates
\* conflict.
C38_IntentsCompatible ==
    \A i, j \in DOMAIN active_intents :
        (/\ Key(active_intents[i].object) = Key(active_intents[j].object)
         /\ \/ active_intents[i].subject # active_intents[j].subject
            \/ active_intents[i].session_id # active_intents[j].session_id)
            => ~check_pair(active_intents[i].predicate, active_intents[j].predicate)

\* C39: heartbeat(lease_id, now) on a lease whose expires_at is less than
\* now returns false and leaves the lease as it was, whether evict_expired
\* has marked it Expired or not.
C39_NoRenewalAfterExpiry ==
    [][(/\ Returned("heartbeat")
        /\ last'.lease_id \in DOMAIN leases
        /\ leases[last'.lease_id].expires_at < last'.now)
          => /\ last'.result = FALSE
             /\ leases' = leases]_vars

\* C40: check_pair is symmetric: the answer for (held, requesting) equals the
\* answer for (requesting, held), for every pair of predicates.
C40_CheckPairSymmetric ==
    last.op = "check_pair" =>
        last.result = check_pair(ccall.requesting, ccall.held)

\* A call with two different predicates, a reader held and a writer
\* requesting, answered with a conflict.
C40_Witness ==
    /\ last.op = "check_pair"
    /\ ccall.held = "Consumes"
    /\ ccall.requesting = "Mutates"
    /\ last.result = TRUE

====
